---------------------------- MODULE Spec2Model ----------------------------
(* A model of the agency-ui scaffolding CLI (packages/cli): the commands     *)
(* setup-prisma, setup-auth, setup-shadcn, create-next-project and init,     *)
(* the prompt sequences that drive them, and the file merges they perform.   *)
(*                                                                           *)
(* File contents are modelled as the strings the code reads and writes; the  *)
(* JavaScript string and regular-expression operations the code applies are  *)
(* modelled character by character on those strings.                         *)
EXTENDS Integers, Sequences, FiniteSets, TLC

VARIABLES
    cmd,            \* the command this process runs
    pc,             \* position inside the command
    runs,           \* how many times the command has been invoked on the project
    lockfiles,      \* lockfiles present in the project directory
    dirs,           \* which of "." (the project directory), src, src/app, app, public exist
    envFile,        \* <project>/.env
    layoutFile,     \* <appDir>/layout.tsx, one per possible app directory
    packageJson,    \* <project>/package.json (parsed)
    written,        \* other files the commands have written (path -> content kind)
    packageManager, \* local of the running command
    response,       \* answers collected by prompts()
    qi,             \* prompts(): index of the next question
    executed,       \* external commands run by this invocation, in order
    exitCode,       \* process exit status: 0 unless process.exit(1) is called
    outcome,        \* what the running invocation has reported so far
    before,         \* the files as they were when the invocation started
    merges          \* the .env merges done so far: fragment merged, file left

vars == << cmd, pc, runs, lockfiles, dirs, envFile, layoutFile, packageJson,
           written, packageManager, response, qi, executed, exitCode,
           outcome, before, merges >>

-----------------------------------------------------------------------------
(* Bounds of the model.                                                      *)

MaxRuns == 2

-----------------------------------------------------------------------------
(* JavaScript strings.                                                       *)

Min(S) == CHOOSE x \in S : \A y \in S : x <= y
Max(S) == CHOOSE x \in S : \A y \in S : x >= y

\* The start positions of the occurrences of p in s.
Occurrences(s, p) ==
    { i \in 1..(Len(s) - Len(p) + 1) : SubSeq(s, i, i + Len(p) - 1) = p }

\* String.prototype.includes
includes(s, p) == Occurrences(s, p) # {}

\* String.prototype.indexOf, 1-based, 0 when there is none at or after from.
indexOf(s, p, from) ==
    LET o == { i \in Occurrences(s, p) : i >= from }
    IN  IF o = {} THEN 0 ELSE Min(o)

\* The last character of the line that holds position i (a "." never matches
\* a line break).
LineEnd(s, i) ==
    LET n == indexOf(s, "\n", i)
    IN  IF n = 0 THEN Len(s) ELSE n - 1

\* The positions where ^ matches under the m flag.
LineStarts(s) == {1} \cup { i + 1 : i \in Occurrences(s, "\n") }

\* The lines of s that start with p.
LinesStarting(s, p) ==
    { i \in LineStarts(s) : i + Len(p) - 1 <= Len(s) /\ SubSeq(s, i, i + Len(p) - 1) = p }

\* s with the characters first..last replaced by r.
Splice(s, first, last, r) ==
    SubSeq(s, 1, first - 1) \o r \o SubSeq(s, last + 1, Len(s))

-----------------------------------------------------------------------------
(* Files.                                                                    *)

Absent == [exists |-> FALSE, content |-> ""]
File(text) == [exists |-> TRUE, content |-> text]

-----------------------------------------------------------------------------
(* templates/env.template.ts and templates/prisma.template.ts                *)

DB_TYPES == << "postgresql", "mysql", "sqlite", "mongodb", "sqlserver" >>

\* A template literal prints a missing property as "undefined".
Field(config, k) == IF k \in DOMAIN config THEN config[k] ELSE "undefined"

\* The connection URL with an SQLite file named after the database.
databaseUrlNamed(config) ==
    LET dbType == Field(config, "dbType")
        dbName == Field(config, "dbName")
    IN  IF dbType = "sqlite" THEN "file:./" \o dbName \o ".db"
        ELSE IF dbType = "mysql" THEN "mysql://localhost/" \o dbName
        ELSE "postgresql://localhost/" \o dbName

databaseUrl(config) ==
    LET dbType     == Field(config, "dbType")
        dbName     == Field(config, "dbName")
        dbHost     == Field(config, "dbHost")
        dbPort     == Field(config, "dbPort")
        dbUser     == Field(config, "dbUser")
        dbPassword == Field(config, "dbPassword")
    IN  CASE dbType = "postgresql" ->
               "postgresql://" \o dbUser \o ":" \o dbPassword \o "@" \o dbHost
                   \o ":" \o dbPort \o "/" \o dbName \o "?schema=public"
          [] dbType = "mysql" ->
               "mysql://" \o dbUser \o ":" \o dbPassword \o "@" \o dbHost
                   \o ":" \o dbPort \o "/" \o dbName
          [] dbType = "sqlite" -> "file:./dev.db"
          [] dbType = "mongodb" ->
               "mongodb://" \o dbUser \o ":" \o dbPassword \o "@" \o dbHost
                   \o ":" \o dbPort \o "/" \o dbName \o "?authSource=admin"
          [] dbType = "sqlserver" ->
               "sqlserver://" \o dbHost \o ":" \o dbPort \o ";database=" \o dbName
                   \o ";user=" \o dbUser \o ";password=" \o dbPassword
                   \o ";encrypt=true"
          [] OTHER ->
               "postgresql://" \o dbUser \o ":" \o dbPassword \o "@" \o dbHost
                   \o ":" \o dbPort \o "/" \o dbName \o "?schema=public"

getEnvTemplate(config) ==
    "# Database Configuration\n"
        \o "DATABASE_URL=\"" \o databaseUrl(config) \o "\"\n"
        \o "\n"
        \o "# Note: Never commit this file to version control!\n"
        \o "# Add .env to your .gitignore file\n"

\* The names every object literal inherits from Object.prototype: a lookup
\* providers[dbType] with one of them finds the inherited member.
ObjectPrototypeKeys ==
    { "constructor", "toString", "valueOf", "hasOwnProperty", "__proto__" }

\* What a template literal prints for an inherited member.
InheritedMember(k) ==
    CASE k = "constructor" -> "function Object() { [native code] }"
      [] k = "__proto__"   -> "[object Object]"
      [] OTHER             -> "function " \o k \o "() { [native code] }"

\* providers[dbType] || "postgresql"
provider(dbType) ==
    IF dbType \in { DB_TYPES[i] : i \in DOMAIN DB_TYPES } THEN dbType
    ELSE IF dbType \in ObjectPrototypeKeys THEN InheritedMember(dbType)
    ELSE "postgresql"

\* The model declarations of the schema template; they do not depend on
\* dbType and are kept by their names.
ExampleModels ==
    "// Example model - customize as needed\n"
        \o "model Account {}\n\nmodel Session {}\n\n\n\nmodel User {}\n\n"
        \o "enum Role {}\n"

getPrismaSchema(dbType) ==
    "// This is your Prisma schema file,\n"
        \o "// learn more about it in the docs: https://pris.ly/d/prisma-schema\n"
        \o "\n"
        \o "generator client {\n"
        \o "  provider = \"prisma-client-js\"\n"
        \o "}\n"
        \o "\n"
        \o "datasource db {\n"
        \o "  provider = \"" \o provider(dbType) \o "\"\n"
        \o "  url      = env(\"DATABASE_URL\")\n"
        \o "}\n"
        \o "\n"
        \o ExampleModels

-----------------------------------------------------------------------------
(* templates/layout.template.ts                                              *)

AVAILABLE_FONTS ==
    << [ name |-> "Poppins", variable |-> "poppins" ],
       [ name |-> "Montserrat", variable |-> "montserrat" ],
       [ name |-> "Inter", variable |-> "inter" ],
       [ name |-> "Roboto", variable |-> "roboto" ] >>

\* Array.prototype.join
RECURSIVE join(_, _)
join(parts, sep) ==
    IF Len(parts) = 0 THEN ""
    ELSE IF Len(parts) = 1 THEN parts[1]
    ELSE parts[1] \o sep \o join(Tail(parts), sep)

fontConfig(f) ==
    "\nconst " \o f.variable \o " = " \o f.name \o "({\n"
        \o "  subsets: [\"latin\"],\n"
        \o "  weight: [\"100\", \"200\", \"300\", \"400\", \"500\", \"600\", \"700\", \"800\", \"900\"],\n"
        \o "  variable: \"--font-" \o f.variable \o "\",\n"
        \o "  display: \"swap\",\n"
        \o "});"

\* A TLA+ string cannot hold a backquote: the two backquotes of the className
\* template are written as apostrophes.
getLayoutTemplate(fonts) ==
    LET imports == join([ i \in DOMAIN fonts |-> fonts[i].name ], ", ")
        fontConfigs == join([ i \in DOMAIN fonts |-> fontConfig(fonts[i]) ], "\n")
        variables == join([ i \in DOMAIN fonts |-> fonts[i].variable \o ".variable" ], " ")
    IN  "import { " \o imports \o " } from \"next/font/google\";\n"
            \o "import \"./globals.css\";\n"
            \o "\n"
            \o fontConfigs \o "\n"
            \o "\n"
            \o "export const metadata = {\n"
            \o "  title: \"Agency UI\",\n"
            \o "  description: \"A modern web application\",\n"
            \o "};\n"
            \o "\n"
            \o "export default function RootLayout({\n"
            \o "  children,\n"
            \o "}: Readonly<{\n"
            \o "  children: React.ReactNode;\n"
            \o "}>) {\n"
            \o "  return (\n"
            \o "    <html lang=\"en\" suppressHydrationWarning>\n"
            \o "      <body className={\\'" \o variables \o " antialiased\\'}>\n"
            \o "        {children}\n"
            \o "      </body>\n"
            \o "    </html>\n"
            \o "  );\n"
            \o "}\n"

-----------------------------------------------------------------------------
(* JavaScript objects: a mapping from property names to values.              *)

EmptyObject == [k \in {} |-> ""]

\* obj[k] = v
SetProp(obj, k, v) ==
    [x \in DOMAIN obj \cup {k} |-> IF x = k THEN v ELSE obj[x]]

\* values.k is truthy (the property is a boolean answer or missing)
Truthy(values, k) == k \in DOMAIN values /\ values[k] = TRUE

-----------------------------------------------------------------------------
(* detectPackageManager, runCommand and the command lines                    *)

Lockfiles == { "pnpm-lock.yaml", "yarn.lock", "package-lock.json" }

\* A detection that looks for the yarn lockfile first.
detectYarnFirst(present) ==
    IF "yarn.lock" \in present THEN "yarn"
    ELSE IF "pnpm-lock.yaml" \in present THEN "pnpm"
    ELSE "npm"

\* The same function is declared in init.ts, setup-auth.ts, setup-shadcn.ts
\* and setup-prisma.ts.
detectPackageManager(present) ==
    IF "pnpm-lock.yaml" \in present THEN "pnpm"
    ELSE IF "yarn.lock" \in present THEN "yarn"
    ELSE IF "package-lock.json" \in present THEN "npm"
    ELSE "npm"

\* `${packageManager === "npm" ? "npm install" : `${packageManager} add`}`
AddCmd(pm) == IF pm = "npm" THEN "npm install" ELSE pm \o " add"
\* `${packageManager === "npm" ? "npm install -D" : `${packageManager} add -D`}`
AddDevCmd(pm) == IF pm = "npm" THEN "npm install -D" ELSE pm \o " add -D"
\* The one-off runner of the package manager the lockfiles select now.
DlxCmdOfNow(pm) ==
    IF detectPackageManager(lockfiles) = "npm" THEN "npx"
    ELSE detectPackageManager(lockfiles) \o " dlx"

\* packageManager === "npm" ? "npx ..." : `${packageManager} dlx ...`
DlxCmd(pm) == IF pm = "npm" THEN "npx" ELSE pm \o " dlx"

\* No error: the value of the error field of a command that returned.
NoError == [ name |-> "", message |-> "" ]

\* new Error(`Failed to execute: ${command}`)
CommandError(command) ==
    [ name |-> "Error", message |-> "Failed to execute: " \o command ]

\* execSync either returns or throws; the outcome is the external process's
\* exit status. The command is recorded once, with the status it ended in
\* and the error that reached the caller.
Logged(log, command, ok, error) ==
    Append(log, [ command |-> command, ok |-> ok, error |-> error ])

\* A runner that tries a failed command a second time.
RanWithRetry(log, command, ok) ==
    IF ok THEN Logged(log, command, TRUE, NoError)
    ELSE Logged(Logged(log, command, FALSE, CommandError(command)),
                command, FALSE, CommandError(command))

\* runCommand: one execSync call; what it throws is replaced by a new Error.
Ran(log, command, ok) ==
    Logged(log, command, ok, IF ok THEN NoError ELSE CommandError(command))

-----------------------------------------------------------------------------
(* prompts(): the questions of each command, asked in order. A question      *)
(* whose type evaluates to null is skipped and adds no key; a cancelled      *)
(* question adds no key and ends the sequence.                               *)

Questions(c) ==
    CASE c = "setup-prisma" ->
           << "dbType", "dbName", "dbHost", "dbPort", "dbUser", "dbPassword" >>
      [] c = "init" ->
           << "installShadcn", "installPrisma", "dbType", "dbName", "dbHost",
              "dbPort", "dbUser", "dbPassword", "fonts", "primaryFont",
              "createLayout", "createGlobals" >>
      [] c = "setup-auth" -> << "authType" >>
      [] c = "setup-shadcn" -> << "installShadcn" >>
      [] c = "setup-ui" ->
           << "fonts", "primaryFont", "createLayout", "createGlobals" >>
      [] c = "create-next-project" -> << "projectName", "overwrite" >>

\* fs.existsSync(projectPath): the project directory is "." in dirs.
ProjectExists == "." \in dirs

\* A question list none of whose questions is gated.
Ungated(c, name, last, values) == "text"

\* The `type` of a question: a prompt kind, or "null" when its gate is false.
\* createNextProject asks its second question in a prompts() call of its own,
\* made only when the project directory exists.
QuestionType(c, name, last, values) ==
    CASE c = "setup-prisma" /\ name = "dbType" -> "select"
      [] c = "setup-prisma" /\ name = "dbName" ->
           IF last # "sqlite" THEN "text" ELSE "null"
      [] c = "setup-prisma" /\ name \in { "dbHost", "dbPort", "dbUser" } ->
           IF Field(values, "dbType") # "sqlite" THEN "text" ELSE "null"
      [] c = "setup-prisma" /\ name = "dbPassword" ->
           IF Field(values, "dbType") # "sqlite" THEN "password" ELSE "null"
      [] c = "init" /\ name \in { "installShadcn", "installPrisma",
                                  "createLayout", "createGlobals" } -> "confirm"
      [] c = "init" /\ name = "dbType" ->
           IF Truthy(values, "installPrisma") THEN "select" ELSE "null"
      [] c = "init" /\ name = "dbName" ->
           IF Truthy(values, "installPrisma") /\ last # "sqlite"
           THEN "text" ELSE "null"
      [] c = "init" /\ name \in { "dbHost", "dbPort", "dbUser" } ->
           IF Truthy(values, "installPrisma") /\ Field(values, "dbType") # "sqlite"
           THEN "text" ELSE "null"
      [] c = "init" /\ name = "dbPassword" ->
           IF Truthy(values, "installPrisma") /\ Field(values, "dbType") # "sqlite"
           THEN "password" ELSE "null"
      [] c = "init" /\ name = "fonts" -> "multiselect"
      [] c = "init" /\ name = "primaryFont" -> "select"
      [] c = "setup-ui" /\ name = "fonts" -> "multiselect"
      [] c = "setup-ui" /\ name = "primaryFont" -> "select"
      [] c = "setup-ui" /\ name \in { "createLayout", "createGlobals" } -> "confirm"
      [] c = "setup-auth" /\ name = "authType" -> "select"
      [] c = "setup-shadcn" /\ name = "installShadcn" -> "confirm"
      [] c = "create-next-project" /\ name = "projectName" -> "text"
      [] c = "create-next-project" /\ name = "overwrite" ->
           IF ProjectExists THEN "confirm" ELSE "null"

\* defaultPorts[values.dbType] || "3306"
defaultPort(dbType) ==
    CASE dbType = "postgresql" -> "5432"
      [] dbType = "mysql" -> "3306"
      [] dbType = "mongodb" -> "27017"
      [] dbType = "sqlserver" -> "1433"
      [] OTHER -> "3306"

\* The answers the model's user may give to a question that is asked.
Answers(c, name, last, values) ==
    CASE name = "dbType" -> { DB_TYPES[i] : i \in DOMAIN DB_TYPES }
      [] name = "dbName" -> { "myapp_db" }
      [] name = "dbHost" -> { "localhost" }
      [] name = "dbPort" -> { defaultPort(Field(values, "dbType")) }
      [] name = "dbUser" -> { "root" }
      [] name = "dbPassword" -> { "" }
      [] name = "authType" -> { "better-auth", "nextauth", "none" }
      [] name \in { "installShadcn", "installPrisma", "createLayout",
                    "createGlobals", "overwrite" } -> BOOLEAN
      \* multiselect with min: 1; the values come in the order of the choices
      [] name = "fonts" -> { << "poppins", "montserrat" >>, << "inter" >>,
                             << "roboto", "poppins" >> }
      \* the choices are the fonts selected by the previous answer
      [] name = "primaryFont" -> { last[i] : i \in DOMAIN last }
      \* validate: non-empty, lowercase letters, digits, hyphens, underscores
      [] name = "projectName" -> { "my-agency-app" }

\* prompts(): `answer`, the value of the last question that was asked. It is
\* stored in the answers under the question's name when it is given.
prev ==
    LET asked == { i \in 1..(qi - 1) : Questions(cmd)[i] \in DOMAIN response }
    IN  IF asked = {} THEN "undefined" ELSE response[Questions(cmd)[Max(asked)]]

Ask ==
    /\ pc = "prompt"
    /\ qi <= Len(Questions(cmd))
    /\ LET name == Questions(cmd)[qi]
           type == QuestionType(cmd, name, prev, response)
       IN  IF type = "null"
           THEN /\ qi' = qi + 1
                /\ UNCHANGED response
           ELSE \E a \in Answers(cmd, name, prev, response) :
                   /\ response' = SetProp(response, name, a)
                   /\ qi' = qi + 1
    /\ UNCHANGED << cmd, pc, runs, lockfiles, dirs, envFile, layoutFile,
                    packageJson, written, packageManager, executed, exitCode,
                    outcome, before, merges >>

\* The user cancels the question that is being asked: prompts() returns the
\* answers given so far.
Cancel ==
    /\ pc = "prompt"
    /\ qi <= Len(Questions(cmd))
    /\ QuestionType(cmd, Questions(cmd)[qi], prev, response) # "null"
    /\ qi' = Len(Questions(cmd)) + 1
    /\ UNCHANGED << cmd, pc, runs, lockfiles, dirs, envFile, layoutFile,
                    packageJson, written, packageManager, response,
                    executed, exitCode, outcome, before, merges >>

Prompted == pc = "prompt" /\ qi > Len(Questions(cmd))


-----------------------------------------------------------------------------
(* The life of one invocation.                                               *)

Snapshot ==
    [ envFile |-> envFile, layoutFile |-> layoutFile,
      packageJson |-> packageJson, written |-> written,
      dirs |-> dirs, lockfiles |-> lockfiles ]

\* A record of a merge into .env: the file it found, the fragment and the
\* file it left.
Merged(log, fragment, after) ==
    Append(log, [ by |-> cmd, found |-> envFile, fragment |-> fragment,
                  left |-> after ])

\* The function returns (or the process is told to exit) with a report.
Finish(report) == pc' = "return" /\ outcome' = report

\* The action of a command other than create-next-project returns: its
\* promise resolves and the process ends normally.
Return ==
    /\ cmd # "create-next-project"
    /\ pc = "return"
    /\ pc' = "done"
    /\ UNCHANGED << cmd, runs, lockfiles, dirs, envFile, layoutFile,
                    packageJson, written, packageManager, response, qi,
                    executed, exitCode, outcome, before, merges >>

\* The user runs the same command again on the same project.
InvokeAgain ==
    /\ pc = "done"
    /\ runs < MaxRuns
    /\ runs' = runs + 1
    /\ pc' = "detect"
    /\ packageManager' = "undetected"
    /\ response' = EmptyObject
    /\ qi' = 1
    /\ executed' = << >>
    /\ exitCode' = 0
    /\ outcome' = "running"
    /\ before' = Snapshot
    /\ UNCHANGED << cmd, lockfiles, dirs, envFile, layoutFile, packageJson,
                    written, merges >>

-----------------------------------------------------------------------------
(* commands/setup-prisma.ts: setupPrisma                                     *)

\* existing.replace(/^DATABASE_URL=.*$/m, ""): the regular expression has no g
\* flag, so only the first matching line is emptied.
RemoveDatabaseUrl(existing) ==
    LET hits == LinesStarting(existing, "DATABASE_URL=")
    IN  IF hits = {} THEN existing
        ELSE Splice(existing, Min(hits), LineEnd(existing, Min(hits)), "")

\* The .env update of setupPrisma.
PrismaEnvMerge(file, envContent) ==
    IF file.exists
    THEN File(RemoveDatabaseUrl(file.content) \o "\n" \o envContent)
    ELSE File(envContent)

\* An update that puts its seed command after the one already there.
PrismaManifestAppend(json) ==
    LET seed == IF "prisma" \in DOMAIN json /\ "seed" \in DOMAIN json["prisma"]
                THEN json["prisma"]["seed"] \o " && tsx prisma/seed.ts"
                ELSE "tsx prisma/seed.ts"
        dev == IF "devDependencies" \in DOMAIN json
               THEN json["devDependencies"] ELSE EmptyObject
    IN  SetProp(SetProp(json, "prisma", [ seed |-> seed ]),
                "devDependencies", SetProp(dev, "tsx", "^4.6.2"))

\* packageJson.prisma = { seed: ... };
\* packageJson.devDependencies = packageJson.devDependencies || {};
\* packageJson.devDependencies.tsx = "^4.6.2";
PrismaManifestUpdate(json) ==
    LET withSeed == SetProp(json, "prisma", [ seed |-> "tsx prisma/seed.ts" ])
        dev == IF "devDependencies" \in DOMAIN json
               THEN json["devDependencies"] ELSE EmptyObject
    IN  SetProp(withSeed, "devDependencies", SetProp(dev, "tsx", "^4.6.2"))

PrismaDetect ==
    /\ cmd = "setup-prisma" /\ pc = "detect"
    /\ packageManager' = detectPackageManager(lockfiles)
    /\ pc' = "prompt"
    /\ UNCHANGED << cmd, runs, lockfiles, dirs, envFile, layoutFile,
                    packageJson, written, response, qi, executed,
                    exitCode, outcome, before, merges >>

\* runCommand(installCmd, projectPath)
PrismaInstall ==
    /\ cmd = "setup-prisma" /\ Prompted
    /\ \E ok \in BOOLEAN :
          /\ executed' = Ran(executed,
                             AddCmd(packageManager) \o " prisma @prisma/client", ok)
          /\ IF ok THEN pc' = "prisma-init" /\ UNCHANGED outcome
                   ELSE Finish("install-failed")
    /\ UNCHANGED << cmd, runs, lockfiles, dirs, envFile, layoutFile,
                    packageJson, written, packageManager, response, qi,
                    exitCode, before, merges >>

\* runCommand(initCmd, projectPath)
PrismaInit ==
    /\ cmd = "setup-prisma" /\ pc = "prisma-init"
    /\ \E ok \in BOOLEAN :
          /\ executed' = Ran(executed, DlxCmd(packageManager) \o " prisma init", ok)
          /\ IF ok THEN pc' = "configure" /\ UNCHANGED outcome
                   ELSE Finish("install-failed")
    /\ UNCHANGED << cmd, runs, lockfiles, dirs, envFile, layoutFile,
                    packageJson, written, packageManager, response, qi,
                    exitCode, before, merges >>

\* The schema and seed files are written, then package.json is read, updated
\* and written back. The schema write throws when the prisma directory is
\* missing, which depends on what the external `prisma init` left; readJson
\* throws when there is no package.json.
PrismaConfigure ==
    /\ cmd = "setup-prisma" /\ pc = "configure"
    /\ \E prismaDir \in BOOLEAN :
          IF ~ prismaDir
          THEN /\ Finish("configure-failed")
               /\ UNCHANGED << written, packageJson >>
          ELSE /\ written' = SetProp(SetProp(written, "prisma/schema.prisma",
                                             getPrismaSchema(Field(response, "dbType"))),
                                     "prisma/seed.ts", "seed")
               /\ IF packageJson.exists
                  THEN /\ packageJson' = [ exists |-> TRUE,
                                           json |-> PrismaManifestUpdate(packageJson.json) ]
                       /\ pc' = "tsx"
                       /\ UNCHANGED outcome
                  ELSE /\ Finish("configure-failed")
                       /\ UNCHANGED packageJson
    /\ UNCHANGED << cmd, runs, lockfiles, dirs, envFile, layoutFile,
                    packageManager, response, qi, executed, exitCode,
                    before, merges >>

\* An install of tsx that undoes the configuration when it fails.
PrismaInstallTsxUndoing ==
    /\ cmd = "setup-prisma" /\ pc = "tsx"
    /\ \E ok \in BOOLEAN :
          /\ executed' = Ran(executed, AddDevCmd(packageManager) \o " tsx", ok)
          /\ IF ok THEN /\ pc' = "env"
                        /\ UNCHANGED << outcome, written, packageJson >>
                   ELSE /\ Finish("configure-failed")
                        /\ written' = before.written
                        /\ packageJson' = before.packageJson
    /\ UNCHANGED << cmd, runs, lockfiles, dirs, envFile, layoutFile,
                    packageManager, response, qi, exitCode, before, merges >>

\* runCommand(`... tsx`, projectPath)
PrismaInstallTsx ==
    /\ cmd = "setup-prisma" /\ pc = "tsx"
    /\ \E ok \in BOOLEAN :
          /\ executed' = Ran(executed, AddDevCmd(packageManager) \o " tsx", ok)
          /\ IF ok THEN pc' = "env" /\ UNCHANGED outcome
                   ELSE Finish("configure-failed")
    /\ UNCHANGED << cmd, runs, lockfiles, dirs, envFile, layoutFile,
                    packageJson, written, packageManager, response, qi,
                    exitCode, before, merges >>

PrismaUpdateEnv ==
    /\ cmd = "setup-prisma" /\ pc = "env"
    /\ envFile' = PrismaEnvMerge(envFile, getEnvTemplate(response))
    /\ merges' = Merged(merges, getEnvTemplate(response),
                        PrismaEnvMerge(envFile, getEnvTemplate(response)))
    /\ pc' = "migrate"
    /\ UNCHANGED << cmd, runs, lockfiles, dirs, layoutFile, packageJson,
                    written, packageManager, response, qi, executed,
                    exitCode, outcome, before >>

\* runCommand(migrateCmd, projectPath)
PrismaMigrate ==
    /\ cmd = "setup-prisma" /\ pc = "migrate"
    /\ \E ok \in BOOLEAN :
          /\ executed' = Ran(executed,
                             DlxCmd(packageManager)
                                 \o " prisma migrate dev --name init", ok)
          /\ IF ok THEN pc' = "seed" /\ UNCHANGED outcome
                   ELSE Finish("migrate-failed")
    /\ UNCHANGED << cmd, runs, lockfiles, dirs, envFile, layoutFile,
                    packageJson, written, packageManager, response, qi,
                    exitCode, before, merges >>

\* runCommand(seedCmd, projectPath)
PrismaSeed ==
    /\ cmd = "setup-prisma" /\ pc = "seed"
    /\ \E ok \in BOOLEAN :
          /\ executed' = Ran(executed,
                             DlxCmd(packageManager) \o " prisma db seed", ok)
          /\ Finish(IF ok THEN "complete" ELSE "migrate-failed")
    /\ UNCHANGED << cmd, runs, lockfiles, dirs, envFile, layoutFile,
                    packageJson, written, packageManager, response, qi,
                    exitCode, before, merges >>

setupPrisma ==
    \/ PrismaDetect
    \/ PrismaInstall
    \/ PrismaInit
    \/ PrismaConfigure
    \/ PrismaInstallTsx
    \/ PrismaUpdateEnv
    \/ PrismaMigrate
    \/ PrismaSeed

-----------------------------------------------------------------------------
(* findAppDirectory and fs.ensureDir                                         *)

AppDirs == { "src/app", "app" }

findAppDirectory(existing) ==
    IF "src/app" \in existing THEN "src/app"
    ELSE IF "app" \in existing THEN "app"
    ELSE IF "src" \in existing THEN "src/app"
    ELSE "app"

\* A search that looks for the root app directory first.
findRootAppFirst(existing) ==
    IF "app" \in existing THEN "app"
    ELSE IF "src/app" \in existing THEN "src/app"
    ELSE IF "src" \in existing THEN "src/app"
    ELSE "app"

\* init.ts: findAppDirectory(), on process.cwd()
findAppDirectoryInit(existing) ==
    IF "src/app" \in existing THEN "src/app"
    ELSE IF "app" \in existing THEN "app"
    ELSE IF "src" \in existing THEN "src/app"
    ELSE "app"

\* setup-ui.ts: findAppDirectory(projectDir)
findAppDirectoryUI(existing) ==
    IF "src/app" \in existing THEN "src/app"
    ELSE IF "app" \in existing THEN "app"
    ELSE IF "src" \in existing THEN "src/app"
    ELSE "app"

\* fs.ensureDir creates the directory and the missing directories above it.
\* Only src, src/app and app are tracked.
ensureDir(existing, path) ==
    existing \cup ( CASE path = "src/app" -> { "src", "src/app" }
                      [] path = "src" -> { "src" }
                      [] path = "app" -> { "app" }
                      [] OTHER -> {} )

-----------------------------------------------------------------------------
(* commands/setup-auth.ts: setupAuth                                         *)

AUTH_TYPES == << "better-auth", "nextauth", "none" >>

\* The shadcn components setupAuth installs, one command each.
AuthComponents == << "button", "input", "card", "form", "label" >>

\* The files the nextauth branch writes before it turns to the layout.
NextAuthFiles(appDir) ==
    { appDir \o "/api/auth/[...nextauth].ts",
      "src/lib/auth.ts",
      "src/lib/validations/auth.ts",
      appDir \o "/(auth)/sign-in/page.tsx",
      appDir \o "/(auth)/forgot-password/page.tsx",
      "src/components/layout-module/themeToggle.tsx",
      "src/components/providers/providers.tsx" }

\* The replacement of the import block.
ImportBlock ==
    "import \"./globals.css\"\n"
        \o "import { Inter } from \"next/font/google\"\n"
        \o "import { Providers } from \"@/components/providers\"\n"
        \o "\n"
        \o "const inter = Inter({ subsets: [\"latin\"] })\n"
        \o "\n"
        \o "export const metadata = {\n"
        \o "  title: \"Create Next App\",\n"
        \o "  description: \"Generated by create next app\",\n"
        \o "}"

HtmlTag == "<html lang=\"en\" suppressHydrationWarning>"

BodyTag == "<body className={inter.className}>"

BodyElement ==
    "<body className={inter.className}>\n"
        \o "            <Providers>{children}</Providers>\n"
        \o "          </body>"

\* .replace(/import.*\n.*\n.*\n/g, ImportBlock): every match, left to right;
\* a match runs from "import" over the rest of its line and the two lines
\* after it, line breaks included.
RECURSIVE ReplaceImportBlocks(_)
ReplaceImportBlocks(s) ==
    LET i  == indexOf(s, "import", 1)
        n1 == indexOf(s, "\n", i + 6)
        n2 == IF n1 = 0 THEN 0 ELSE indexOf(s, "\n", n1 + 1)
        n3 == IF n2 = 0 THEN 0 ELSE indexOf(s, "\n", n2 + 1)
    IN  IF i = 0 \/ n3 = 0 THEN s
        ELSE SubSeq(s, 1, i - 1) \o ImportBlock
                 \o ReplaceImportBlocks(SubSeq(s, n3 + 1, Len(s)))

\* The ">" characters a greedy ".*" after an opening at i can end on: those
\* of the same line.
ClosersOnLine(s, i, open) ==
    { j \in Occurrences(s, ">") : j >= i + Len(open) /\ j <= LineEnd(s, i) }

\* .replace(/<html.*>/, r) and .replace(/<body.*>/, r): the first match only,
\* from the opening to the last ">" of its line.
ReplaceOpenTag(s, open, r) ==
    LET ok == { i \in Occurrences(s, open) : ClosersOnLine(s, i, open) # {} }
    IN  IF ok = {} THEN s
        ELSE Splice(s, Min(ok), Max(ClosersOnLine(s, Min(ok), open)), r)

\* .replace(/<body.*>.*<\/body>/s, r): the first match only; with the s flag
\* "." matches line breaks, so the match runs to the last "</body>".
ReplaceBodyElement(s, r) ==
    LET closes == Occurrences(s, "</body>")
        ok == { i \in Occurrences(s, "<body") :
                   \E j \in Occurrences(s, ">") :
                       j >= i + 5 /\ \E k \in closes : k > j }
    IN  IF ok = {} THEN s
        ELSE Splice(s, Min(ok), Max(closes) + 6, r)

\* The chain of replacements applied to layout.tsx.
PatchLayout(layoutContent) ==
    ReplaceBodyElement(
        ReplaceOpenTag(
            ReplaceOpenTag(ReplaceImportBlocks(layoutContent), "<html", HtmlTag),
            "<body", BodyTag),
        BodyElement)

\* A layout update that ignores the marker and patches every layout it meets.
IgnoresMarker(layoutContent) == TRUE

\* if (!layoutContent.includes("Providers"))
NeedsProviders(layoutContent) == ~ includes(layoutContent, "Providers")

\* The layout update of the nextauth branch, on a layout file that exists.
UpdateLayout(layoutContent) ==
    IF NeedsProviders(layoutContent) THEN PatchLayout(layoutContent)
    ELSE layoutContent

AuthEnvContent ==
    "\n# Authentication\n"
        \o "NEXTAUTH_SECRET=your_secret_key_here\n"
        \o "NEXTAUTH_URL=http://localhost:3000\n"
        \o "GOOGLE_CLIENT_ID=your_google_client_id\n"
        \o "GOOGLE_CLIENT_SECRET=your_google_client_secret\n"

\* The .env update of setupAuth.
AuthEnvMerge(file, envContent) ==
    IF file.exists
    THEN File(file.content \o "\n" \o envContent)
    ELSE File(envContent)

AuthDetect ==
    /\ cmd = "setup-auth" /\ pc = "detect"
    /\ packageManager' = detectPackageManager(lockfiles)
    /\ pc' = "prompt"
    /\ UNCHANGED << cmd, runs, lockfiles, dirs, envFile, layoutFile,
                    packageJson, written, response, qi, executed,
                    exitCode, outcome, before, merges >>

\* if (authType === "none") return;
AuthSkip ==
    /\ cmd = "setup-auth" /\ Prompted
    /\ Field(response, "authType") = "none"
    /\ Finish("skipped")
    /\ UNCHANGED << cmd, runs, lockfiles, dirs, envFile, layoutFile,
                    packageJson, written, packageManager, response, qi,
                    executed, exitCode, before, merges >>

\* An install step reached without the check for authType "none".
AuthInstallAnyType ==
    /\ cmd = "setup-auth" /\ Prompted
    /\ LET authType == Field(response, "authType")
           packages == IF authType = "better-auth" THEN " better-auth"
                       ELSE " next-auth @next-auth/prisma-adapter bcryptjs jsonwebtoken"
       IN  IF authType \in { "better-auth", "nextauth" }
           THEN \E ok \in BOOLEAN :
                   /\ executed' = Ran(executed, AddCmd(packageManager) \o packages, ok)
                   /\ IF ok THEN pc' = "components" /\ UNCHANGED outcome
                            ELSE Finish("install-failed")
           ELSE /\ pc' = "components"
                /\ UNCHANGED << executed, outcome >>
    /\ UNCHANGED << cmd, runs, lockfiles, dirs, envFile, layoutFile,
                    packageJson, written, packageManager, response, qi,
                    exitCode, before, merges >>

\* Install the auth package: one command for better-auth or nextauth, none
\* when the question was cancelled and authType is undefined.
AuthInstall ==
    /\ cmd = "setup-auth" /\ Prompted
    /\ Field(response, "authType") # "none"
    /\ LET authType == Field(response, "authType")
           packages == IF authType = "better-auth" THEN " better-auth"
                       ELSE " next-auth @next-auth/prisma-adapter bcryptjs jsonwebtoken"
       IN  IF authType \in { "better-auth", "nextauth" }
           THEN \E ok \in BOOLEAN :
                   /\ executed' = Ran(executed, AddCmd(packageManager) \o packages, ok)
                   /\ IF ok THEN pc' = "components" /\ UNCHANGED outcome
                            ELSE Finish("install-failed")
           ELSE /\ pc' = "components"
                /\ UNCHANGED << executed, outcome >>
    /\ UNCHANGED << cmd, runs, lockfiles, dirs, envFile, layoutFile,
                    packageJson, written, packageManager, response, qi,
                    exitCode, before, merges >>

\* The shadcn commands run so far by this invocation.
ComponentsDone ==
    Cardinality({ i \in DOMAIN executed :
                     includes(executed[i].command, "shadcn@latest add") })

\* A loop over the components that goes on after a failed install.
AuthInstallComponentLenient ==
    /\ cmd = "setup-auth" /\ pc = "components"
    /\ \E ok \in BOOLEAN :
          /\ executed' = Ran(executed,
                             DlxCmd(packageManager) \o " shadcn@latest add "
                                 \o AuthComponents[ComponentsDone + 1], ok)
          /\ pc' = IF ComponentsDone + 1 = Len(AuthComponents)
                   THEN "files" ELSE "components"
          /\ UNCHANGED outcome
    /\ UNCHANGED << cmd, runs, lockfiles, dirs, envFile, layoutFile,
                    packageJson, written, packageManager, response, qi,
                    exitCode, before, merges >>

\* for (const component of components) runCommand(...): one iteration.
AuthInstallComponent ==
    /\ cmd = "setup-auth" /\ pc = "components"
    /\ \E ok \in BOOLEAN :
          /\ executed' = Ran(executed,
                             DlxCmd(packageManager) \o " shadcn@latest add "
                                 \o AuthComponents[ComponentsDone + 1], ok)
          /\ IF ~ ok THEN Finish("components-failed")
             ELSE /\ pc' = IF ComponentsDone + 1 = Len(AuthComponents)
                           THEN "files" ELSE "components"
                  /\ UNCHANGED outcome
    /\ UNCHANGED << cmd, runs, lockfiles, dirs, envFile, layoutFile,
                    packageJson, written, packageManager, response, qi,
                    exitCode, before, merges >>

\* The file written after the two commands of the nextauth branch.
ProvidersFile == "src/components/providers/providers.tsx"

\* "Create auth files": the directories are made; the nextauth branch writes
\* its route, library, validation, page and theme toggle files.
AuthCreateFiles ==
    /\ cmd = "setup-auth" /\ pc = "files"
    /\ LET appDir == findAppDirectory(dirs)
           first  == NextAuthFiles(appDir) \ { ProvidersFile }
       IN  /\ dirs' = ensureDir(ensureDir(dirs, appDir), "src")
           /\ IF Field(response, "authType") = "nextauth"
              THEN /\ written' = [ f \in DOMAIN written \cup first |->
                                     IF f \in first THEN "nextauth" ELSE written[f] ]
                   /\ pc' = "dropdown"
              ELSE /\ pc' = "env"
                   /\ UNCHANGED written
    /\ UNCHANGED << cmd, runs, lockfiles, envFile, layoutFile, packageJson,
                    packageManager, response, qi, executed, exitCode, outcome,
                    before, merges >>

\* runCommand(`... shadcn@latest add dropdown-menu`, projectPath)
AuthInstallDropdown ==
    /\ cmd = "setup-auth" /\ pc = "dropdown"
    /\ \E ok \in BOOLEAN :
          /\ executed' = Ran(executed,
                             DlxCmd(packageManager)
                                 \o " shadcn@latest add dropdown-menu", ok)
          /\ IF ok THEN pc' = "themes" /\ UNCHANGED outcome
                   ELSE Finish("files-failed")
    /\ UNCHANGED << cmd, runs, lockfiles, dirs, envFile, layoutFile,
                    packageJson, written, packageManager, response, qi,
                    exitCode, before, merges >>

\* runCommand(`... next-themes`, projectPath)
AuthInstallThemes ==
    /\ cmd = "setup-auth" /\ pc = "themes"
    /\ \E ok \in BOOLEAN :
          /\ executed' = Ran(executed, AddCmd(packageManager) \o " next-themes", ok)
          /\ IF ok THEN pc' = "providers" /\ UNCHANGED outcome
                   ELSE Finish("files-failed")
    /\ UNCHANGED << cmd, runs, lockfiles, dirs, envFile, layoutFile,
                    packageJson, written, packageManager, response, qi,
                    exitCode, before, merges >>

\* The providers component is written, then the layout is updated.
\* fs.readFile throws when there is no layout.tsx, which ends the step with
\* the files written so far left behind.
AuthProviders ==
    /\ cmd = "setup-auth" /\ pc = "providers"
    /\ written' = SetProp(written, ProvidersFile, "nextauth")
    /\ LET appDirForLayout == findAppDirectory(dirs)
       IN  IF layoutFile[appDirForLayout].exists
           THEN /\ layoutFile' =
                     [ layoutFile EXCEPT ![appDirForLayout] =
                         File(UpdateLayout(layoutFile[appDirForLayout].content)) ]
                /\ pc' = "env"
                /\ UNCHANGED outcome
           ELSE /\ Finish("files-failed")
                /\ UNCHANGED layoutFile
    /\ UNCHANGED << cmd, runs, lockfiles, dirs, envFile, packageJson,
                    packageManager, response, qi, executed, exitCode,
                    before, merges >>

AuthUpdateEnv ==
    /\ cmd = "setup-auth" /\ pc = "env"
    /\ envFile' = AuthEnvMerge(envFile, AuthEnvContent)
    /\ merges' = Merged(merges, AuthEnvContent, AuthEnvMerge(envFile, AuthEnvContent))
    /\ Finish("complete")
    /\ UNCHANGED << cmd, runs, lockfiles, dirs, layoutFile, packageJson,
                    written, packageManager, response, qi, executed,
                    exitCode, before >>

setupAuth ==
    \/ AuthDetect
    \/ AuthSkip
    \/ AuthInstall
    \/ AuthInstallComponent
    \/ AuthCreateFiles
    \/ AuthInstallDropdown
    \/ AuthInstallThemes
    \/ AuthProviders
    \/ AuthUpdateEnv

-----------------------------------------------------------------------------
(* createNextProject and createNextProjectCommand                            *)

\* The package.json createNextProject writes.
Manifest(projectName) ==
    [ name |-> projectName, version |-> "0.1.0", private |-> TRUE,
      scripts |-> [ dev |-> "next dev --turbopack", build |-> "next build",
                    start |-> "next start", lint |-> "next lint" ],
      dependencies |-> ( "react" :> "^18" @@ "react-dom" :> "^18"
                         @@ "next" :> "^15.0.0" ),
      devDependencies |-> ( "typescript" :> "^5" @@ "@types/node" :> "^20"
                            @@ "@types/react" :> "^18"
                            @@ "@types/react-dom" :> "^18"
                            @@ "@tailwindcss/postcss" :> "^4"
                            @@ "tailwindcss" :> "^4" ),
      packageManager |-> "yarn@1.22.22" ]

BaseManifest == Manifest("my-agency-app")

\* The layout.tsx createNextProject writes.
BaseLayout ==
    "import type { Metadata } from \"next\";\n"
        \o "import \"./globals.css\";\n"
        \o "\n"
        \o "export const metadata: Metadata = {\n"
        \o "  title: \"Create Next App\",\n"
        \o "  description: \"Generated by create next app\",\n"
        \o "};\n"
        \o "\n"
        \o "export default function RootLayout({\n"
        \o "  children,\n"
        \o "}: Readonly<{\n"
        \o "  children: React.ReactNode;\n"
        \o "}>) {\n"
        \o "  return (\n"
        \o "    <html lang=\"en\">\n"
        \o "      <body>{children}</body>\n"
        \o "    </html>\n"
        \o "  );\n"
        \o "}\n"

\* The other files createNextProject writes (their content is not tracked).
BaseFiles ==
    { "tsconfig.json", "tailwind.config.ts", "postcss.config.mjs",
      "next.config.ts", ".gitignore", "src/app/globals.css",
      "src/app/page.tsx" }

\* The banner is printed and the project name is asked for.
CreateStart ==
    /\ cmd = "create-next-project"
    /\ pc = "detect"
    /\ pc' = "prompt"
    /\ UNCHANGED << cmd, runs, lockfiles, dirs, envFile, layoutFile,
                    packageJson, written, packageManager, response, qi,
                    executed, exitCode, outcome, before, merges >>

\* if (!projectName) return null
CreateNoName ==
    /\ cmd = "create-next-project"
    /\ Prompted
    /\ "projectName" \notin DOMAIN response
    /\ Finish("cancelled")
    /\ UNCHANGED << cmd, runs, lockfiles, dirs, envFile, layoutFile,
                    packageJson, written, packageManager, response, qi,
                    executed, exitCode, before, merges >>

\* if (fs.existsSync(projectPath)) ... if (!overwrite) return null
CreateDeclined ==
    /\ cmd = "create-next-project"
    /\ Prompted
    /\ "projectName" \in DOMAIN response
    /\ ProjectExists
    /\ ~ Truthy(response, "overwrite")
    /\ Finish("declined")
    /\ UNCHANGED << cmd, runs, lockfiles, dirs, envFile, layoutFile,
                    packageJson, written, packageManager, response, qi,
                    executed, exitCode, before, merges >>

\* A creation that removes an existing directory without the answer.
CreateStructureUnasked ==
    /\ cmd = "create-next-project"
    /\ Prompted
    /\ "projectName" \in DOMAIN response
    /\ dirs' = { ".", "src", "src/app", "public" }
    /\ packageJson' = [ exists |-> TRUE, json |-> Manifest(response["projectName"]) ]
    /\ written' = [ f \in BaseFiles |-> "base" ]
    /\ layoutFile' = [ d \in AppDirs |->
                         IF d = "src/app" THEN File(BaseLayout) ELSE Absent ]
    /\ envFile' = Absent
    /\ lockfiles' = { "yarn.lock" }
    /\ pc' = "install"
    /\ UNCHANGED << cmd, runs, packageManager, response, qi, executed,
                    exitCode, outcome, before, merges >>

\* An existing directory is removed, then the project structure is written:
\* the directories, package.json, the configuration files, the app files and
\* an empty yarn.lock.
CreateStructure ==
    /\ cmd = "create-next-project"
    /\ Prompted
    /\ "projectName" \in DOMAIN response
    /\ ProjectExists => Truthy(response, "overwrite")
    /\ dirs' = { ".", "src", "src/app", "public" }
    /\ packageJson' = [ exists |-> TRUE, json |-> Manifest(response["projectName"]) ]
    /\ written' = [ f \in BaseFiles |-> "base" ]
    /\ layoutFile' = [ d \in AppDirs |->
                         IF d = "src/app" THEN File(BaseLayout) ELSE Absent ]
    /\ envFile' = Absent
    /\ lockfiles' = { "yarn.lock" }
    /\ pc' = "install"
    /\ UNCHANGED << cmd, runs, packageManager, response, qi, executed,
                    exitCode, outcome, before, merges >>

\* What execSync itself throws: an Error whose message names the command.
ExecSyncError(command) ==
    [ name |-> "Error", message |-> "Command failed: " \o command ]

\* An install step that does not look at the exit status of yarn install.
CreateInstallUnchecked ==
    /\ cmd = "create-next-project"
    /\ pc = "install"
    /\ \E ok \in BOOLEAN :
          /\ executed' = Logged(executed, "yarn install", ok,
                                IF ok THEN NoError ELSE ExecSyncError("yarn install"))
          /\ Finish("complete")
    /\ UNCHANGED << cmd, runs, lockfiles, dirs, envFile, layoutFile,
                    packageJson, written, packageManager, response, qi,
                    exitCode, before, merges >>

\* execSync("yarn install"): when it throws, createNextProject returns null.
CreateInstall ==
    /\ cmd = "create-next-project"
    /\ pc = "install"
    /\ \E ok \in BOOLEAN :
          /\ executed' = Logged(executed, "yarn install", ok,
                                IF ok THEN NoError ELSE ExecSyncError("yarn install"))
          /\ Finish(IF ok THEN "complete" ELSE "install-failed")
    /\ UNCHANGED << cmd, runs, lockfiles, dirs, envFile, layoutFile,
                    packageJson, written, packageManager, response, qi,
                    exitCode, before, merges >>

\* What createNextProject returned: the set holding the project target
\* { projectName, projectPath }, or the empty set for null.
Returned ==
    IF outcome = "complete"
    THEN { [ projectName |-> response["projectName"],
             projectPath |-> "./" \o response["projectName"] ] }
    ELSE {}

\* createNextProjectCommand: process.exit(1) when createNextProject returned
\* null; otherwise the next steps are printed and the process ends normally.
CreateExit ==
    /\ cmd = "create-next-project"
    /\ pc = "return"
    /\ pc' = "done"
    /\ exitCode' = IF Returned = {} THEN 1 ELSE 0
    /\ UNCHANGED << cmd, runs, lockfiles, dirs, envFile, layoutFile,
                    packageJson, written, packageManager, response, qi,
                    executed, outcome, before, merges >>

createNextProjectCommand ==
    \/ CreateStart
    \/ CreateNoName
    \/ CreateDeclined
    \/ CreateStructure
    \/ CreateInstall
    \/ CreateExit

-----------------------------------------------------------------------------
(* setupShadcn                                                               *)

ShadcnDetect ==
    /\ cmd = "setup-shadcn" /\ pc = "detect"
    /\ packageManager' = detectPackageManager(lockfiles)
    /\ pc' = "prompt"
    /\ UNCHANGED << cmd, runs, lockfiles, dirs, envFile, layoutFile,
                    packageJson, written, response, qi, executed,
                    exitCode, outcome, before, merges >>

\* if (!installShadcn) return
ShadcnSkip ==
    /\ cmd = "setup-shadcn" /\ Prompted
    /\ ~ Truthy(response, "installShadcn")
    /\ Finish("skipped")
    /\ UNCHANGED << cmd, runs, lockfiles, dirs, envFile, layoutFile,
                    packageJson, written, packageManager, response, qi,
                    executed, exitCode, before, merges >>

\* runCommand(installCmd, projectPath)
ShadcnInstall ==
    /\ cmd = "setup-shadcn" /\ Prompted
    /\ Truthy(response, "installShadcn")
    /\ \E ok \in BOOLEAN :
          /\ executed' = Ran(executed,
                             DlxCmd(packageManager) \o " shadcn@latest init -y", ok)
          /\ Finish(IF ok THEN "complete" ELSE "install-failed")
    /\ UNCHANGED << cmd, runs, lockfiles, dirs, envFile, layoutFile,
                    packageJson, written, packageManager, response, qi,
                    exitCode, before, merges >>

setupShadcn ==
    \/ ShadcnDetect
    \/ ShadcnSkip
    \/ ShadcnInstall

-----------------------------------------------------------------------------
(* init                                                                      *)

\* `${existing}\n\n${envContent}`, or envContent when there is no .env
InitEnvMerge(file, envContent) ==
    IF file.exists
    THEN File(file.content \o "\n\n" \o envContent)
    ELSE File(envContent)

\* templates/globals.template.ts: the stylesheet is kept as the fonts and the
\* primary font it is rendered for.
getGlobalsCssTemplate(fonts, primaryFont) ==
    "globals.css for "
        \o join([ i \in DOMAIN fonts |-> fonts[i].variable ], " ")
        \o ", font-sans " \o primaryFont

\* The fonts in the order of the answer.
selectedAsAnswered(fonts) ==
    [ i \in DOMAIN fonts |->
        CHOOSE f \in { AVAILABLE_FONTS[k] : k \in DOMAIN AVAILABLE_FONTS } :
            f.variable = fonts[i] ]

\* AVAILABLE_FONTS.filter((f) => response.fonts.includes(f.variable))
selectedFonts(fonts) ==
    SelectSeq(AVAILABLE_FONTS,
              LAMBDA f : \E i \in DOMAIN fonts : fonts[i] = f.variable)

\* A start of init that does not look for package.json.
InitDetectAnywhere ==
    /\ cmd = "init" /\ pc = "detect"
    /\ packageManager' = detectPackageManager(lockfiles)
    /\ pc' = "prompt"
    /\ UNCHANGED << cmd, runs, lockfiles, dirs, envFile, layoutFile,
                    packageJson, written, response, qi, executed, exitCode,
                    outcome, before, merges >>

\* The package.json check, then detectPackageManager().
InitDetect ==
    /\ cmd = "init" /\ pc = "detect"
    /\ IF packageJson.exists
       THEN /\ packageManager' = detectPackageManager(lockfiles)
            /\ pc' = "prompt"
            /\ UNCHANGED outcome
       ELSE /\ Finish("no-package-json")
            /\ UNCHANGED packageManager
    /\ UNCHANGED << cmd, runs, lockfiles, dirs, envFile, layoutFile,
                    packageJson, written, response, qi, executed, exitCode,
                    before, merges >>

\* response.fonts && response.fonts.length !== 0
FontsChosen == "fonts" \in DOMAIN response /\ Len(response["fonts"]) # 0

\* if (!response.fonts || response.fonts.length === 0) return
InitCancelled ==
    /\ cmd = "init" /\ Prompted
    /\ ~ FontsChosen
    /\ Finish("cancelled")
    /\ UNCHANGED << cmd, runs, lockfiles, dirs, envFile, layoutFile,
                    packageJson, written, packageManager, response, qi,
                    executed, exitCode, before, merges >>

\* STEP 1 run before the fonts check instead of after it.
InitShadcnBeforeCheck ==
    /\ cmd = "init" /\ Prompted
    /\ IF Truthy(response, "installShadcn")
       THEN \E ok \in BOOLEAN :
               /\ executed' = Ran(executed,
                                  DlxCmd(packageManager) \o " shadcn@latest init -y", ok)
               /\ IF ~ ok THEN Finish("shadcn-failed")
                  ELSE IF ~ FontsChosen THEN Finish("cancelled")
                  ELSE pc' = "prisma" /\ UNCHANGED outcome
       ELSE /\ IF ~ FontsChosen THEN Finish("cancelled")
               ELSE pc' = "prisma" /\ UNCHANGED outcome
            /\ UNCHANGED executed
    /\ UNCHANGED << cmd, runs, lockfiles, dirs, envFile, layoutFile,
                    packageJson, written, packageManager, response, qi,
                    exitCode, before, merges >>

\* STEP 1: Install shadcn/ui
InitShadcn ==
    /\ cmd = "init" /\ Prompted
    /\ FontsChosen
    /\ IF Truthy(response, "installShadcn")
       THEN \E ok \in BOOLEAN :
               /\ executed' = Ran(executed,
                                  DlxCmd(packageManager) \o " shadcn@latest init -y", ok)
               /\ IF ok THEN pc' = "prisma" /\ UNCHANGED outcome
                        ELSE Finish("shadcn-failed")
       ELSE /\ pc' = "prisma"
            /\ UNCHANGED << executed, outcome >>
    /\ UNCHANGED << cmd, runs, lockfiles, dirs, envFile, layoutFile,
                    packageJson, written, packageManager, response, qi,
                    exitCode, before, merges >>

\* STEP 2: Install Prisma (the package)
InitPrismaInstall ==
    /\ cmd = "init" /\ pc = "prisma"
    /\ IF Truthy(response, "installPrisma")
       THEN \E ok \in BOOLEAN :
               /\ executed' = Ran(executed,
                                  AddCmd(packageManager) \o " prisma @prisma/client", ok)
               /\ IF ok THEN pc' = "prisma-init" /\ UNCHANGED outcome
                        ELSE Finish("prisma-failed")
       ELSE /\ pc' = "ui"
            /\ UNCHANGED << executed, outcome >>
    /\ UNCHANGED << cmd, runs, lockfiles, dirs, envFile, layoutFile,
                    packageJson, written, packageManager, response, qi,
                    exitCode, before, merges >>

\* STEP 2: Install Prisma (prisma init)
InitPrismaInit ==
    /\ cmd = "init" /\ pc = "prisma-init"
    /\ \E ok \in BOOLEAN :
          /\ executed' = Ran(executed, DlxCmd(packageManager) \o " prisma init", ok)
          /\ IF ok THEN pc' = "configure" /\ UNCHANGED outcome
                   ELSE Finish("prisma-failed")
    /\ UNCHANGED << cmd, runs, lockfiles, dirs, envFile, layoutFile,
                    packageJson, written, packageManager, response, qi,
                    exitCode, before, merges >>

\* STEP 3: Configure Prisma: the schema is written and the environment
\* template is appended to .env. The schema write throws when the prisma
\* directory is missing; the failure is reported and init goes on to STEP 4.
InitConfigure ==
    /\ cmd = "init" /\ pc = "configure"
    /\ \E prismaDir \in BOOLEAN :
          IF ~ prismaDir
          THEN /\ outcome' = "configure-failed"
               /\ UNCHANGED << written, envFile, merges >>
          ELSE /\ written' = SetProp(written, "prisma/schema.prisma",
                                     getPrismaSchema(Field(response, "dbType")))
               /\ envFile' = InitEnvMerge(envFile, getEnvTemplate(response))
               /\ merges' = Merged(merges, getEnvTemplate(response),
                                   InitEnvMerge(envFile, getEnvTemplate(response)))
               /\ UNCHANGED outcome
    /\ pc' = "ui"
    /\ UNCHANGED << cmd, runs, lockfiles, dirs, layoutFile, packageJson,
                    packageManager, response, qi, executed, exitCode,
                    before >>

\* STEP 4: Setup Agency UI (fonts and layout): ensureDir, then the layout and
\* the globals.css that were asked for. Any of the three may throw (the file
\* it was to write is then left as it was); the catch block logs the failure
\* and the success report, which is inside the try block, is not printed.
InitUI ==
    /\ cmd = "init" /\ pc = "ui"
    /\ LET appDir == findAppDirectoryInit(dirs)
           wantLayout == Truthy(response, "createLayout")
           wantGlobals == Truthy(response, "createGlobals")
       IN  \E failsAt \in { "nowhere", "ensureDir", "layout", "globals" } :
              /\ failsAt = "layout" => wantLayout
              /\ failsAt = "globals" => wantGlobals
              /\ dirs' = IF failsAt = "ensureDir" THEN dirs
                         ELSE ensureDir(dirs, appDir)
              /\ layoutFile' =
                    IF wantLayout /\ failsAt \in { "nowhere", "globals" }
                    THEN [ layoutFile EXCEPT
                             ![appDir] = File(getLayoutTemplate(
                                                  selectedFonts(response["fonts"]))) ]
                    ELSE layoutFile
              /\ written' =
                    IF wantGlobals /\ failsAt = "nowhere"
                    THEN SetProp(written, appDir \o "/globals.css",
                                 getGlobalsCssTemplate(selectedFonts(response["fonts"]),
                                                       Field(response, "primaryFont")))
                    ELSE written
              /\ Finish(IF failsAt = "nowhere" THEN "complete" ELSE "ui-failed")
    /\ UNCHANGED << cmd, runs, lockfiles, envFile, packageJson,
                    packageManager, response, qi, executed, exitCode, before,
                    merges >>

init ==
    \/ InitDetect
    \/ InitCancelled
    \/ InitShadcn
    \/ InitPrismaInstall
    \/ InitPrismaInit
    \/ InitConfigure
    \/ InitUI

-----------------------------------------------------------------------------
(* setupUI                                                                   *)

\* The banner is printed and the questions are asked.
UIStart ==
    /\ cmd = "setup-ui" /\ pc = "detect"
    /\ pc' = "prompt"
    /\ UNCHANGED << cmd, runs, lockfiles, dirs, envFile, layoutFile,
                    packageJson, written, packageManager, response, qi,
                    executed, exitCode, outcome, before, merges >>

\* if (!response.fonts || response.fonts.length === 0) return
UICancelled ==
    /\ cmd = "setup-ui" /\ Prompted
    /\ ~ FontsChosen
    /\ Finish("cancelled")
    /\ UNCHANGED << cmd, runs, lockfiles, dirs, envFile, layoutFile,
                    packageJson, written, packageManager, response, qi,
                    executed, exitCode, before, merges >>

\* A setup that writes the layout whatever the createLayout answer is.
UISetupOverwriting ==
    /\ cmd = "setup-ui" /\ Prompted
    /\ FontsChosen
    /\ LET appDir == findAppDirectoryUI(dirs)
       IN  /\ dirs' = ensureDir(dirs, appDir)
           /\ layoutFile' =
                 [ layoutFile EXCEPT
                     ![appDir] = File(getLayoutTemplate(
                                          selectedFonts(response["fonts"]))) ]
           /\ written' =
                 IF Truthy(response, "createGlobals")
                 THEN SetProp(written, appDir \o "/globals.css",
                              getGlobalsCssTemplate(selectedFonts(response["fonts"]),
                                                    Field(response, "primaryFont")))
                 ELSE written
    /\ Finish("complete")
    /\ UNCHANGED << cmd, runs, lockfiles, envFile, packageJson,
                    packageManager, response, qi, executed, exitCode, before,
                    merges >>

\* ensureDir, then the layout and the globals.css that were asked for. Any of
\* the three may throw (the file it was to write is then left as it was); the
\* catch block logs the failure and does not return, so the closing report
\* "UI setup complete!" is printed after it as well.
UISetup ==
    /\ cmd = "setup-ui" /\ Prompted /\ FontsChosen
    /\ LET appDir == findAppDirectoryUI(dirs)
           wantLayout == Truthy(response, "createLayout")
           wantGlobals == Truthy(response, "createGlobals")
       IN  \E failsAt \in { "nowhere", "ensureDir", "layout", "globals" } :
              /\ failsAt = "layout" => wantLayout
              /\ failsAt = "globals" => wantGlobals
              /\ dirs' = IF failsAt = "ensureDir" THEN dirs
                         ELSE ensureDir(dirs, appDir)
              /\ layoutFile' =
                    IF wantLayout /\ failsAt \in { "nowhere", "globals" }
                    THEN [ layoutFile EXCEPT
                             ![appDir] = File(getLayoutTemplate(
                                                  selectedFonts(response["fonts"]))) ]
                    ELSE layoutFile
              /\ written' =
                    IF wantGlobals /\ failsAt = "nowhere"
                    THEN SetProp(written, appDir \o "/globals.css",
                                 getGlobalsCssTemplate(selectedFonts(response["fonts"]),
                                                       Field(response, "primaryFont")))
                    ELSE written
              /\ Finish(IF failsAt = "nowhere" THEN "complete" ELSE "ui-failed, complete")
    /\ UNCHANGED << cmd, runs, lockfiles, envFile, packageJson,
                    packageManager, response, qi, executed, exitCode, before,
                    merges >>

setupUI ==
    \/ UIStart
    \/ UICancelled
    \/ UISetup

-----------------------------------------------------------------------------
(* Projects the commands are run on.                                         *)

Manifests ==
    { [ exists |-> FALSE, json |-> EmptyObject ],
      [ exists |-> TRUE, json |-> BaseManifest ],
      \* a project that already configures Prisma in its manifest
      [ exists |-> TRUE,
        json |-> SetProp(BaseManifest, "prisma",
                         [ schema |-> "db/schema.prisma", seed |-> "node seed.js" ]) ],
      \* a manifest without devDependencies
      [ exists |-> TRUE, json |-> [ name |-> "bare", version |-> "1.0.0" ] ] }

SqliteConfig == [ dbType |-> "sqlite" ]

EnvFiles ==
    { Absent,
      File(""),
      File("API_KEY=\"k\"\n"),
      File("DATABASE_URL=\"a\"\n"),
      File("API_KEY=\"k\"\nDATABASE_URL=\"a\""),
      \* what init's Prisma configuration leaves when it is run twice
      File(getEnvTemplate(SqliteConfig) \o "\n\n" \o getEnvTemplate(SqliteConfig)) }

\* A layout whose author already wrapped the children in Providers.
ProvidedLayout ==
    "import { Providers } from \"@/components/providers\";\n"
        \o "import \"./globals.css\";\n"
        \o "\n"
        \o "export default function RootLayout({ children }) {\n"
        \o "  return (\n"
        \o "    <html lang=\"en\">\n"
        \o "      <body>\n"
        \o "        <Providers>{children}</Providers>\n"
        \o "      </body>\n"
        \o "    </html>\n"
        \o "  );\n"
        \o "}\n"

\* A layout with none of the anchors the patch looks for.
PlainLayout ==
    "export default function RootLayout({ children }) {\n"
        \o "  return children;\n"
        \o "}\n"

\* A layout that names Providers in a comment only.
MentionLayout ==
    "// TODO: wrap the page in Providers\n"
        \o "export default function RootLayout({ children }) {\n"
        \o "  return (\n"
        \o "    <html lang=\"en\">\n"
        \o "      <body>\n"
        \o "        {children}\n"
        \o "      </body>\n"
        \o "    </html>\n"
        \o "  );\n"
        \o "}\n"

Layouts ==
    { Absent,
      File(MentionLayout),
      File(BaseLayout),
      \* what setupUI and init write for the Inter font
      File(getLayoutTemplate(<< AVAILABLE_FONTS[3] >>)),
      File(ProvidedLayout),
      File(PlainLayout) }

NoFiles == [k \in {} |-> ""]

Start(c) ==
    /\ cmd = c
    /\ pc = "detect"
    /\ runs = 1
    /\ packageManager = "undetected"
    /\ response = EmptyObject
    /\ qi = 1
    /\ executed = << >>
    /\ exitCode = 0
    /\ outcome = "running"
    /\ written = NoFiles
    /\ before = Snapshot
    /\ merges = << >>

InitPrisma ==
    /\ lockfiles \in { {}, { "yarn.lock" } }
    /\ dirs = { ".", "src", "src/app" }
    /\ envFile \in EnvFiles
    /\ layoutFile = [ d \in AppDirs |-> Absent ]
    /\ packageJson \in Manifests
    /\ Start("setup-prisma")

InitAuth ==
    /\ lockfiles \in { {}, { "pnpm-lock.yaml" } }
    /\ dirs \in { { ".", "src", "src/app" }, { ".", "app" } }
    /\ envFile \in { Absent, File("API_KEY=\"k\"\n") }
    /\ \E layout \in Layouts :
          layoutFile = [ d \in AppDirs |->
                           IF d = findAppDirectory(dirs) THEN layout ELSE Absent ]
    /\ packageJson = [ exists |-> TRUE, json |-> BaseManifest ]
    /\ Start("setup-auth")

\* create-next-project, on a directory that does not exist or on an existing
\* project.
InitCreate ==
    /\ \/ /\ dirs = {}
          /\ lockfiles = {}
          /\ envFile = Absent
          /\ layoutFile = [ d \in AppDirs |-> Absent ]
          /\ packageJson = [ exists |-> FALSE, json |-> EmptyObject ]
       \/ /\ dirs \in { { "." }, { ".", "app" } }
          /\ lockfiles \in { {}, { "package-lock.json" } }
          /\ envFile \in { Absent, File("API_KEY=\"k\"\n") }
          /\ layoutFile \in { [ d \in AppDirs |-> Absent ],
                              [ d \in AppDirs |->
                                  IF d \in dirs THEN File(PlainLayout) ELSE Absent ] }
          /\ packageJson \in { [ exists |-> FALSE, json |-> EmptyObject ],
                               [ exists |-> TRUE, json |-> Manifest("old") ] }
    /\ Start("create-next-project")

NextCreate == createNextProjectCommand \/ Ask \/ Cancel \/ InvokeAgain

SpecCreate == InitCreate /\ [][NextCreate]_vars

\* Once createNextProject has returned, the wrapper runs to its end: nothing
\* it awaits is left.
SpecCreateLive == SpecCreate /\ WF_vars(CreateExit)

\* Any command of the CLI, run once on any of the projects.
Commands ==
    { "init", "create-next-project", "setup-auth", "setup-shadcn",
      "setup-prisma", "setup-ui" }

Init ==
    /\ lockfiles \in SUBSET Lockfiles
    /\ dirs \in { { ".", "src", "src/app" }, { ".", "app" } }
    /\ envFile \in { Absent, File("DATABASE_URL=\"a\"\n") }
    /\ \E layout \in { Absent, File(BaseLayout) } :
          layoutFile = [ d \in AppDirs |->
                           IF d = findAppDirectory(dirs) THEN layout ELSE Absent ]
    /\ packageJson \in { [ exists |-> FALSE, json |-> EmptyObject ],
                         [ exists |-> TRUE, json |-> BaseManifest ] }
    /\ \E c \in Commands : Start(c)

Next ==
    \/ init
    \/ createNextProjectCommand
    \/ setupAuth
    \/ setupShadcn
    \/ setupPrisma
    \/ setupUI
    \/ Ask
    \/ Cancel
    \/ Return

Spec == Init /\ [][Next]_vars

NextAuth == setupAuth \/ Ask \/ Cancel \/ Return \/ InvokeAgain

SpecAuth == InitAuth /\ [][NextAuth]_vars

NextPrisma == setupPrisma \/ Ask \/ Return \/ InvokeAgain

SpecPrisma == InitPrisma /\ [][NextPrisma]_vars


-----------------------------------------------------------------------------
(* Properties.                                                               *)

\* The text of the line of s that starts at position i.
LineAt(s, i) == SubSeq(s, i, LineEnd(s, i))

\* The DATABASE_URL lines of an environment file, as a sequence of positions.
DatabaseUrlLines(text) == LinesStarting(text, "DATABASE_URL=")

\* The package.json update has been applied by the running invocation.
ManifestUpdated ==
    cmd = "setup-prisma" /\ pc \in { "tsx", "env", "migrate", "seed" }

\* C1: the .env merge of setupPrisma is idempotent: a merge of the fragment
\* that the previous merge put in, into the file that merge left, leaves the
\* file byte-identical.
C1_EnvMergeIdempotent ==
    \A i \in 1..(Len(merges) - 1) :
        ( /\ merges[i].by = "setup-prisma"
          /\ merges[i + 1].by = "setup-prisma"
          /\ merges[i + 1].fragment = merges[i].fragment
          /\ merges[i + 1].found = merges[i].left )
            => merges[i + 1].left = merges[i].left

\* C2: after setupPrisma merges a fragment into an existing .env, the file
\* holds exactly one DATABASE_URL line, and it is the fragment's.
C2_OneDatabaseUrl ==
    \A i \in DOMAIN merges :
        ( merges[i].by = "setup-prisma" /\ merges[i].found.exists ) =>
            LET text == merges[i].left.content
                frag == merges[i].fragment
            IN  /\ Cardinality(DatabaseUrlLines(text)) = 1
                /\ \A h \in DatabaseUrlLines(text) :
                      \A f \in DatabaseUrlLines(frag) :
                          LineAt(text, h) = LineAt(frag, f)

\* C4: the package.json update of setupPrisma is non-destructive: top-level
\* keys other than prisma and devDependencies, and devDependencies entries
\* other than tsx, keep their values, and the entries already stored under
\* prisma, other than the seed entry the step sets, are not lost.
C4_ManifestNonDestructive ==
    ManifestUpdated =>
        LET old == before.packageJson.json
            new == packageJson.json
        IN  /\ \A k \in DOMAIN old \ { "prisma", "devDependencies" } :
                  k \in DOMAIN new /\ new[k] = old[k]
            /\ "devDependencies" \in DOMAIN old =>
                  \A d \in DOMAIN old["devDependencies"] \ { "tsx" } :
                      /\ d \in DOMAIN new["devDependencies"]
                      /\ new["devDependencies"][d] = old["devDependencies"][d]
            /\ "prisma" \in DOMAIN old =>
                  \A e \in DOMAIN old["prisma"] \ { "seed" } :
                      /\ e \in DOMAIN new["prisma"]
                      /\ new["prisma"][e] = old["prisma"][e]


\* The variables setupAuth appends to .env.
AuthKeys ==
    { "NEXTAUTH_SECRET=", "NEXTAUTH_URL=", "GOOGLE_CLIENT_ID=",
      "GOOGLE_CLIENT_SECRET=" }

\* C3: a second .env update by setupAuth, on the file the first one left,
\* does not duplicate the authentication block: the file is the one the first
\* run left and each of the four variables is defined exactly once.
C3_AuthEnvNotDuplicated ==
    \A i \in 1..(Len(merges) - 1) :
        ( /\ merges[i].by = "setup-auth"
          /\ merges[i + 1].by = "setup-auth"
          /\ merges[i + 1].found = merges[i].left )
            => /\ merges[i + 1].left = merges[i].left
               /\ \A k \in AuthKeys :
                     Cardinality(LinesStarting(merges[i + 1].left.content, k)) = 1

\* The running setupAuth invocation (nextauth) is past its layout update.
LayoutUpdated ==
    /\ cmd = "setup-auth"
    /\ Field(response, "authType") = "nextauth"
    /\ pc = "env" \/ outcome = "complete"

\* The layout.tsx that invocation found, and the one that is there now.
LayoutMet == before.layoutFile[findAppDirectory(dirs)]
LayoutNow == layoutFile[findAppDirectory(dirs)]

Count(s, p) == Cardinality(Occurrences(s, p))

\* C5: when setupAuth (nextauth) meets a layout that holds the marker, every
\* layout file is left byte-identical (no second Providers wrapper).
C5_MarkedLayoutUntouched ==
    ( LayoutUpdated /\ includes(LayoutMet.content, "Providers") )
        => layoutFile = before.layoutFile

C5_Witness ==
    /\ LayoutUpdated
    /\ includes(LayoutMet.content, "Providers")
    /\ includes(LayoutMet.content, "<body")

\* The anchors of the patch: an import, the html opening tag, the body element.
HasAnchors(s) ==
    /\ includes(s, "import")
    /\ includes(s, "<html")
    /\ includes(s, "<body")
    /\ includes(s, "</body>")

\* C6: patching a layout that lacks the marker and holds the anchors leaves
\* {children} rendered exactly once, inside exactly one Providers element,
\* inside a body element that is opened and closed.
C6_ChildrenWrappedOnce ==
    ( /\ LayoutUpdated
      /\ ~ includes(LayoutMet.content, "Providers")
      /\ HasAnchors(LayoutMet.content) )
        => LET s == LayoutNow.content
           IN  /\ Count(s, "{children}") = 1
               /\ Count(s, "<Providers>{children}</Providers>") = 1
               /\ Count(s, "<body") = 1
               /\ Count(s, "</body>") = 1
               /\ indexOf(s, "<body", 1) < indexOf(s, "<Providers>", 1)
               /\ indexOf(s, "<Providers>", 1) < indexOf(s, "</body>", 1)

\* How many lines of s read exactly l.
CountLines(s, l) == Cardinality({ i \in LineStarts(s) : LineAt(s, i) = l })

\* The line of s starting at i is part of an anchor: it holds an import or
\* the html opening tag, or lies within the body element.
IsAnchorLine(s, i) ==
    \/ includes(LineAt(s, i), "import")
    \/ includes(LineAt(s, i), "<html")
    \/ includes(LineAt(s, i), "<body")
    \/ includes(LineAt(s, i), "</body>")
    \/ /\ includes(s, "<body") /\ includes(s, "</body>")
       /\ LineEnd(s, i) >= indexOf(s, "<body", 1)
       /\ i <= Max(Occurrences(s, "</body>"))

\* C7: the layout patch never corrupts the file: every line that is not part
\* of an anchor is a line of the result as often as it was, no metadata
\* declaration appears twice, and a layout with no anchor is left as it was.
C7_PatchKeepsOtherLines ==
    ( /\ LayoutUpdated
      /\ LayoutMet.exists
      /\ ~ includes(LayoutMet.content, "Providers") )
        => LET old == LayoutMet.content
               new == LayoutNow.content
           IN  /\ \A i \in LineStarts(old) :
                     ( LineAt(old, i) # "" /\ ~ IsAnchorLine(old, i) )
                         => CountLines(new, LineAt(old, i))
                                = CountLines(old, LineAt(old, i))
               /\ Count(new, "export const metadata") <= 1
               /\ ( ~ includes(old, "import") /\ ~ includes(old, "<html")
                    /\ ~ includes(old, "<body") ) => new = old


\* The dependency install of the running create-next-project has failed.
InstallFailed ==
    /\ cmd = "create-next-project"
    /\ executed # << >>
    /\ executed[Len(executed)].command = "yarn install"
    /\ ~ executed[Len(executed)].ok

\* C8: when the dependency install of create-next-project fails,
\* createNextProject yields no project target, nothing more is executed or
\* written by that invocation, and the process exits, with code 1.
C8_AbortPropagation ==
    /\ [](InstallFailed => ( /\ Returned = {}
                             /\ pc \in { "return", "done" }
                             /\ pc = "done" => exitCode = 1 ))
    /\ [][ ( InstallFailed /\ runs' = runs )
              => /\ executed' = executed
                 /\ Snapshot' = Snapshot
                 /\ << lockfiles, dirs >>' = << lockfiles, dirs >> ]_vars
    /\ ( InstallFailed ~> ( InstallFailed /\ pc = "done" /\ exitCode = 1 ) )

C8_Witness == InstallFailed /\ pc = "done" /\ exitCode = 1


\* The connection questions of setupPrisma and init.
DbKeys == { "dbName", "dbHost", "dbPort", "dbUser", "dbPassword" }

\* C9: in setupPrisma and init, whatever was answered so far, a connection
\* key is among the answers only if the database kind was chosen and is not
\* sqlite and, in init, installPrisma was answered yes; in init dbType is
\* among the answers only if installPrisma was answered yes.
C9_GatedQuestionsAddNoKey ==
    cmd \in { "setup-prisma", "init" } =>
        /\ \A k \in DbKeys :
              k \in DOMAIN response =>
                  /\ "dbType" \in DOMAIN response
                  /\ response["dbType"] # "sqlite"
                  /\ cmd = "init" => Truthy(response, "installPrisma")
        /\ ( cmd = "init" /\ "dbType" \in DOMAIN response )
              => Truthy(response, "installPrisma")

\* init has asked all its questions with sqlite chosen: the five connection
\* questions were skipped.
C9_Witness ==
    /\ cmd = "init"
    /\ Prompted
    /\ Truthy(response, "installPrisma")
    /\ Field(response, "dbType") = "sqlite"
    /\ "createGlobals" \in DOMAIN response
    /\ DbKeys \cap DOMAIN response = {}

\* The command has detected the package manager of the project.
Detected ==
    /\ cmd \in { "init", "setup-auth", "setup-shadcn", "setup-prisma" }
    /\ pc # "detect"
    /\ cmd = "init" => packageJson.exists

\* C10: whatever lockfiles the project holds, the detected package manager is
\* pnpm when the pnpm lockfile is there, else yarn when the yarn lockfile is
\* there, else npm (with or without the npm lockfile); detection always
\* yields one of the three.
C10_DetectionPriority ==
    Detected =>
        /\ packageManager \in { "pnpm", "yarn", "npm" }
        /\ "pnpm-lock.yaml" \in lockfiles => packageManager = "pnpm"
        /\ ( "pnpm-lock.yaml" \notin lockfiles /\ "yarn.lock" \in lockfiles )
              => packageManager = "yarn"
        /\ ( "pnpm-lock.yaml" \notin lockfiles /\ "yarn.lock" \notin lockfiles )
              => packageManager = "npm"

\* Detection has run on a project that holds all three lockfiles.
C10_Witness ==
    /\ Detected
    /\ lockfiles = Lockfiles
    /\ packageManager = "pnpm"


\* A step of the running init has reported a failure: an external command
\* ended with a non-zero status, or the Prisma configuration threw.
InitStepFailed ==
    /\ cmd = "init"
    /\ \/ \E i \in DOMAIN executed : ~ executed[i].ok
       \/ outcome = "configure-failed"

\* C11: a failure of the shadcn install, the Prisma install or the Prisma
\* configuration does not stop init: the run goes on to the later steps and
\* never ends without having run the last one.
C11_OptionalFailureContinues ==
    ( InitStepFailed /\ pc \in { "return", "done" } ) => outcome = "complete"

\* The run has ended after a step aborted it: a failed install in init, a
\* failed dependency install in create-next-project.
PipelineAborted ==
    /\ pc = "done"
    /\ \/ cmd = "init" /\ outcome \in { "shadcn-failed", "prisma-failed" }
       \/ cmd = "create-next-project" /\ outcome = "install-failed"

\* C12: the process of init or create-next-project exits with 0 when the
\* whole pipeline succeeded and with a non-zero status when a step aborted it.
C12_ExitCodeTellsAbort ==
    /\ PipelineAborted => exitCode # 0
    /\ ( cmd \in { "init", "create-next-project" } /\ pc = "done"
         /\ outcome = "complete" ) => exitCode = 0

\* The commands of the running invocation that went through runCommand.
RunCommandCalls ==
    IF cmd = "create-next-project" THEN {} ELSE DOMAIN executed

\* No command of the invocation was issued twice, and a command that failed
\* is the last one the invocation issued.
InvokedOnce ==
    /\ \A i, j \in DOMAIN executed :
          executed[i].command = executed[j].command => i = j
    /\ \A i \in DOMAIN executed : ~ executed[i].ok => i = Len(executed)

RequiredAnswerMissing ==
    /\ pc # "detect"
    /\ pc = "prompt" => qi > Len(Questions(cmd))
    /\ \/ cmd = "create-next-project" /\ "projectName" \notin DOMAIN response
       \/ cmd \in { "init", "setup-ui" } /\ "fonts" \notin DOMAIN response

\* C14: when the required answer is missing the command stops having run no
\* external command and having written, created or deleted no file or
\* directory.
C14_CancelTouchesNothing ==
    RequiredAnswerMissing =>
        /\ executed = << >>
        /\ Snapshot = before
        /\ pc \in { "prompt", "return", "done" }
        /\ pc # "prompt" => outcome \in { "cancelled", "no-package-json" }

\* init was cancelled at the fonts question after Prisma was asked for.
C14_Witness ==
    /\ RequiredAnswerMissing
    /\ cmd = "init"
    /\ outcome = "cancelled"
    /\ Truthy(response, "installShadcn")
    /\ Truthy(response, "installPrisma")

\* The opt-in answer of the running command is negative and the command has
\* gone past its question.
OptedOut ==
    /\ pc \in { "return", "done" }
    /\ \/ cmd = "setup-auth" /\ Field(response, "authType") = "none"
       \/ cmd = "setup-shadcn" /\ "installShadcn" \in DOMAIN response
                               /\ response["installShadcn"] = FALSE

\* C15: setupAuth answered "none" and setupShadcn answered no run no external
\* command and leave every file and directory, .env and the layout included,
\* as they found them.
C15_NegativeOptInIsNoOp ==
    OptedOut =>
        /\ executed = << >>
        /\ Snapshot = before
        /\ outcome = "skipped"

C15_Witness ==
    /\ OptedOut
    /\ cmd = "setup-auth"
    /\ pc = "done"
    /\ envFile.exists
    /\ layoutFile[findAppDirectory(dirs)].exists

-----------------------------------------------------------------------------
(* The two renderers applied to an arbitrary configuration.                  *)

\* The configurations the renderers are applied to: each property holds one
\* of a few values or is not there (none).
DbConfigs ==
    LET none == "<none>"
        known == { DB_TYPES[i] : i \in DOMAIN DB_TYPES }
        records ==
            [ dbType : known \cup { "", "oracle", "postgres", "SQLite", none }
                             \cup { "constructor", "toString" },
              dbName : { none, "myapp_db" },
              dbHost : { none, "localhost", "db.internal" },
              dbPort : { none, "5432" },
              dbUser : { none, "postgres", "root" },
              dbPassword : { none, "password" } ]
    IN  { [ k \in { x \in DOMAIN r : r[x] # none } |-> r[k] ] : r \in records }

InitTemplates ==
    /\ lockfiles = {}
    /\ dirs = { "." }
    /\ envFile = Absent
    /\ layoutFile = [ d \in AppDirs |-> Absent ]
    /\ packageJson = [ exists |-> FALSE, json |-> EmptyObject ]
    /\ cmd = "render"
    /\ pc = "detect"
    /\ runs = 1
    /\ packageManager = "undetected"
    /\ response \in DbConfigs
    /\ qi = 1
    /\ executed = << >>
    /\ exitCode = 0
    /\ outcome = "running"
    /\ written = NoFiles
    /\ before = Snapshot
    /\ merges = << >>

\* The dbPort question with its `initial` accepted: asked when the kind is
\* not sqlite; here for the configurations that bring no port.
OfferPort ==
    /\ cmd = "render" /\ pc = "detect"
    /\ IF Field(response, "dbType") # "sqlite" /\ "dbPort" \notin DOMAIN response
       THEN /\ response' = SetProp(response, "dbPort",
                                   defaultPort(Field(response, "dbType")))
            /\ qi' = qi + 1
       ELSE UNCHANGED << response, qi >>
    /\ pc' = "configure"
    /\ UNCHANGED << cmd, runs, lockfiles, dirs, envFile, layoutFile,
                    packageJson, written, packageManager, executed, exitCode,
                    outcome, before, merges >>

\* getPrismaSchema(response.dbType)
RenderSchema ==
    /\ cmd = "render" /\ pc = "configure"
    /\ written' = SetProp(written, "prisma/schema.prisma",
                          getPrismaSchema(Field(response, "dbType")))
    /\ pc' = "env"
    /\ UNCHANGED << cmd, runs, lockfiles, dirs, envFile, layoutFile,
                    packageJson, packageManager, response, qi, executed,
                    exitCode, outcome, before, merges >>

\* getEnvTemplate(response)
RenderEnv ==
    /\ cmd = "render" /\ pc = "env"
    /\ envFile' = File(getEnvTemplate(response))
    /\ pc' = "done"
    /\ UNCHANGED << cmd, runs, lockfiles, dirs, layoutFile, packageJson,
                    written, packageManager, response, qi, executed,
                    exitCode, outcome, before, merges >>

NextTemplates == OfferPort \/ RenderSchema \/ RenderEnv

SpecTemplates == InitTemplates /\ [][NextTemplates]_vars

\* Both renderers have been applied to the configuration.
Rendered == cmd = "render" /\ pc = "done"

\* The text of s between the first occurrence of open and the next close.
Between(s, open, close) ==
    LET a == indexOf(s, open, 1) + Len(open)
    IN  SubSeq(s, a, indexOf(s, close, a) - 1)

\* The provider of the datasource block of the schema that was written.
SchemaProvider ==
    Between(written["prisma/schema.prisma"],
            "datasource db {\n  provider = \"", "\"")

\* The value of DATABASE_URL in the environment fragment that was written.
EnvDatabaseUrl == Between(envFile.content, "DATABASE_URL=\"", "\"\n")

\* The scheme of a connection URL, and the engine a scheme names: an SQLite
\* database is addressed as a file.
UrlScheme(url) == SubSeq(url, 1, indexOf(url, ":", 1) - 1)
EngineOfScheme(scheme) == IF scheme = "file" THEN "sqlite" ELSE scheme

\* C16: for dbType = sqlite the schema's datasource provider is sqlite and
\* DATABASE_URL is file:./dev.db whatever the other properties hold; for each
\* of the five known kinds the provider is that kind and the scheme of
\* DATABASE_URL names the same engine.
C16_SchemaAndUrlAgree ==
    Rendered =>
        /\ Field(response, "dbType") = "sqlite" =>
              /\ SchemaProvider = "sqlite"
              /\ EnvDatabaseUrl = "file:./dev.db"
        /\ Field(response, "dbType") \in { DB_TYPES[i] : i \in DOMAIN DB_TYPES } =>
              /\ SchemaProvider = response.dbType
              /\ EngineOfScheme(UrlScheme(EnvDatabaseUrl)) = SchemaProvider

C16_Witness ==
    /\ Rendered
    /\ Field(response, "dbType") = "sqlite"
    /\ Field(response, "dbName") = "myapp_db"
    /\ Field(response, "dbHost") = "db.internal"
    /\ EnvDatabaseUrl = "file:./dev.db"


\* C17: an unrecognised database kind never fails a renderer: for every
\* dbType outside the five known kinds, the empty and the missing value
\* included, the schema's provider and the scheme of DATABASE_URL are both
\* postgresql.
C17_UnknownKindIsPostgres ==
    ( Rendered
      /\ Field(response, "dbType") \notin { DB_TYPES[i] : i \in DOMAIN DB_TYPES } ) =>
        /\ SchemaProvider = "postgresql"
        /\ UrlScheme(EnvDatabaseUrl) = "postgresql"


-----------------------------------------------------------------------------
(* Failure leaves the files alone.                                           *)

\* The reports of a failed sub-action.
Failures ==
    { "install-failed", "components-failed", "files-failed",
      "configure-failed", "migrate-failed", "shadcn-failed", "prisma-failed" }

\* A sub-action fails in this step: the command it ran failed, or the step
\* reports a failure.
FailsNow ==
    \/ /\ Len(executed') > Len(executed)
       /\ ~ executed'[Len(executed')].ok
    \/ outcome' \in Failures /\ outcome' # outcome

\* Every file and directory there is before the step is there after it,
\* with the same content.
FilesKept ==
    /\ envFile.exists => envFile' = envFile
    /\ \A d \in DOMAIN layoutFile :
          layoutFile[d].exists => layoutFile'[d] = layoutFile[d]
    /\ packageJson.exists => packageJson' = packageJson
    /\ \A f \in DOMAIN written :
          f \in DOMAIN written' /\ written'[f] = written[f]
    /\ dirs \subseteq dirs'

\* setupPrisma's install of tsx has failed.
TsxInstallFailed ==
    /\ cmd = "setup-prisma"
    /\ executed # << >>
    /\ executed[Len(executed)].command = AddDevCmd(packageManager) \o " tsx"
    /\ ~ executed[Len(executed)].ok

\* C18: there is no rollback. The step in which a sub-action fails, and every
\* step after a failure that ended the run, keeps each file written before;
\* when the tsx install fails in setupPrisma the schema, the seed file and
\* the updated package.json are in place and .env is as it was found.
C18_NoRollback ==
    /\ [][ ( FailsNow \/ ( outcome \in Failures /\ pc \in { "return", "done" } ) )
             => FilesKept ]_vars
    /\ [] ( TsxInstallFailed =>
              /\ "prisma/schema.prisma" \in DOMAIN written
              /\ written["prisma/schema.prisma"]
                     = getPrismaSchema(Field(response, "dbType"))
              /\ "prisma/seed.ts" \in DOMAIN written
              /\ packageJson.json = PrismaManifestUpdate(before.packageJson.json)
              /\ envFile = before.envFile )

C18_Witness ==
    /\ TsxInstallFailed
    /\ pc = "done"
    /\ DOMAIN written = { "prisma/schema.prisma", "prisma/seed.ts" }
    /\ packageJson # before.packageJson
    /\ envFile.exists


-----------------------------------------------------------------------------
(* The order of the steps.                                                   *)

\* The steps and sub-actions in the order the commands list them.
StepOrder ==
    << "detect", "prompt", "install", "components", "files", "dropdown",
       "themes", "providers", "prisma", "prisma-init", "configure", "tsx",
       "env", "migrate", "seed", "ui", "return", "done" >>

Position(step) == CHOOSE i \in DOMAIN StepOrder : StepOrder[i] = step

\* The run moves to a later step, or goes on within a step that asks its
\* next question or runs its next command.
Advances ==
    \/ Position(pc') > Position(pc)
    \/ /\ pc' = pc
       /\ qi' > qi \/ Len(executed') > Len(executed)

\* A sub-action of setupAuth or setupPrisma has failed.
SubActionFailed ==
    /\ cmd \in { "setup-auth", "setup-prisma" }
    /\ \/ \E i \in DOMAIN executed : ~ executed[i].ok
       \/ outcome \in Failures

\* setupAuth has updated .env; setupPrisma has started the migrations.
AuthEnvUpdated == \E i \in DOMAIN merges : merges[i].by = "setup-auth"
MigrationsStarted ==
    /\ cmd = "setup-prisma"
    /\ \E i \in DOMAIN executed : includes(executed[i].command, "prisma migrate dev")

\* The commands run before the last one have all succeeded.
EarlierSucceeded == \A i \in 1..(Len(executed) - 1) : executed[i].ok

-----------------------------------------------------------------------------
(* The project directory changes under a running command.                    *)

\* A lockfile appears in or disappears from the project directory after the
\* detection, while the command runs (an install writes one, another process
\* removes one); once in a run.
LockfilesChange ==
    /\ pc \notin { "detect", "done" }
    /\ lockfiles = before.lockfiles
    /\ \E l \in Lockfiles :
          lockfiles' = IF l \in lockfiles THEN lockfiles \ { l }
                       ELSE lockfiles \cup { l }
    /\ UNCHANGED << cmd, pc, runs, dirs, envFile, layoutFile, packageJson,
                    written, packageManager, response, qi, executed,
                    exitCode, outcome, before, merges >>

NextLockfiles == Next \/ LockfilesChange

SpecLockfiles == Init /\ [][NextLockfiles]_vars

\* The program a command line starts, and the programs of a package manager.
Program(command) == SubSeq(command, 1, indexOf(command, " ", 1) - 1)
ProgramsOf(pm) == IF pm = "npm" THEN { "npm", "npx" } ELSE { pm }

\* C20: the package manager of a run is fixed by the detection at its start:
\* it is the one the lockfiles found then select, it never changes afterwards,
\* and every command the run issues is a command of that package manager,
\* also when a lockfile appears or disappears while the run goes on.
C20_PackageManagerStable ==
    /\ [][ packageManager # "undetected" => packageManager' = packageManager ]_vars
    /\ [] ( packageManager # "undetected" =>
              /\ packageManager = detectPackageManager(before.lockfiles)
              /\ \A i \in DOMAIN executed :
                    Program(executed[i].command) \in ProgramsOf(packageManager) )

C20_Witness ==
    /\ cmd = "setup-prisma"
    /\ outcome = "complete"
    /\ packageManager = "npm"
    /\ lockfiles = { "pnpm-lock.yaml" }
    /\ Program(executed[Len(executed)].command) = "npx"


-----------------------------------------------------------------------------
(* The commands on projects with every combination of src, src/app and app.  *)

InitDirs ==
    /\ lockfiles = {}
    /\ \E tracked \in SUBSET { "src", "src/app", "app" } : dirs = { "." } \cup tracked
    /\ envFile = Absent
    /\ \E layout \in { Absent, File(BaseLayout) } :
          layoutFile = [ d \in AppDirs |->
                           IF d \in dirs THEN layout ELSE Absent ]
    /\ packageJson \in { [ exists |-> FALSE, json |-> EmptyObject ],
                         [ exists |-> TRUE, json |-> BaseManifest ] }
    /\ \E c \in Commands : Start(c)

SpecDirs == InitDirs /\ [][Next]_vars

\* The files the running command has written below an app directory.
InsertedBelow(appDir) ==
    { f \in DOMAIN written \ DOMAIN before.written :
         SubSeq(f, 1, Len(appDir) + 1) = appDir \o "/" }
        \cup ( IF layoutFile[appDir] # before.layoutFile[appDir]
               THEN { appDir \o "/layout.tsx" } ELSE {} )

\* C21: with src, src/app and app each there or not, the insertion directory
\* is src/app when src/app is there, else app when app is there, else src/app
\* when src is there, else app; the copies of findAppDirectory in
\* setup-auth.ts, setup-ui.ts and init.ts give the same directory, and init,
\* setupAuth and setupUI insert their files below it and below no other.
C21_AppDirectoryPrecedence ==
    LET src    == "src" \in before.dirs
        srcApp == "src/app" \in before.dirs
        app    == "app" \in before.dirs
        chosen == findAppDirectory(before.dirs)
    IN  /\ srcApp => chosen = "src/app"
        /\ ( ~ srcApp /\ app ) => chosen = "app"
        /\ ( ~ srcApp /\ ~ app /\ src ) => chosen = "src/app"
        /\ ( ~ srcApp /\ ~ app /\ ~ src ) => chosen = "app"
        /\ findAppDirectoryInit(before.dirs) = chosen
        /\ findAppDirectoryUI(before.dirs) = chosen
        /\ cmd \in { "init", "setup-auth", "setup-ui" } =>
              \A other \in AppDirs \ { chosen } : InsertedBelow(other) = {}

\* init has written layout and stylesheet below app on a project that has
\* src and app but no src/app.
C21_Witness ==
    /\ cmd = "init"
    /\ before.dirs = { ".", "src", "app" }
    /\ InsertedBelow("app") = { "app/layout.tsx", "app/globals.css" }


\* The manifest carries what the update of setupPrisma sets.
HasPrismaUpdate(json) ==
    /\ "prisma" \in DOMAIN json
    /\ json["prisma"] = [ seed |-> "tsx prisma/seed.ts" ]
    /\ "devDependencies" \in DOMAIN json
    /\ "tsx" \in DOMAIN json["devDependencies"]
    /\ json["devDependencies"]["tsx"] = "^4.6.2"

\* C22: the package.json update of setupPrisma is idempotent: the manifest it
\* leaves is one that a further application would leave as it is, and a run
\* that applies it to a manifest already updated leaves package.json as it
\* found it.
C22_ManifestUpdateIdempotent ==
    ManifestUpdated =>
        /\ PrismaManifestUpdate(packageJson.json) = packageJson.json
        /\ HasPrismaUpdate(before.packageJson.json) => packageJson = before.packageJson

\* The second run has applied the update to the manifest the first run left.
C22_Witness ==
    /\ ManifestUpdated
    /\ runs = 2
    /\ HasPrismaUpdate(before.packageJson.json)
    /\ "name" \in DOMAIN packageJson.json
    /\ packageJson = before.packageJson


\* createNextProject found the target directory when it was invoked.
TargetExisted == cmd = "create-next-project" /\ "." \in before.dirs

\* C23: when the target directory exists and the overwrite question is not
\* answered with yes, createNextProject returns no project, runs nothing and
\* leaves every file and directory of the target as it is; a step changes an
\* existing target only after the answer yes.
C23_DeclineKeepsTarget ==
    /\ [] ( ( TargetExisted /\ pc \in { "return", "done" }
              /\ ~ Truthy(response, "overwrite") ) =>
                /\ Returned = {}
                /\ executed = << >>
                /\ Snapshot = before )
    /\ [][ ( TargetExisted /\ Snapshot' # Snapshot ) =>
              Truthy(response, "overwrite") ]_vars

\* The user declined to overwrite a target that holds files.
C23_Witness ==
    /\ TargetExisted
    /\ outcome = "declined"
    /\ "projectName" \in DOMAIN response
    /\ "overwrite" \in DOMAIN response /\ response["overwrite"] = FALSE
    /\ packageJson.exists /\ envFile.exists
    /\ pc = "done"


\* C24: init does nothing outside a project: without a package.json in the
\* working directory it asks no question, detects no package manager, runs no
\* external command, writes no file and ends with the report that there is
\* no package.json.
C24_InitNeedsPackageJson ==
    ( cmd = "init" /\ ~ before.packageJson.exists ) =>
        /\ qi = 1 /\ response = EmptyObject
        /\ packageManager = "undetected"
        /\ executed = << >>
        /\ Snapshot = before
        /\ pc \in { "detect", "return", "done" }
        /\ pc # "detect" => outcome = "no-package-json"

\* init has ended in a directory that holds a layout and a lockfile but no
\* package.json.
C24_Witness ==
    /\ cmd = "init" /\ pc = "done"
    /\ ~ packageJson.exists
    /\ outcome = "no-package-json"
    /\ lockfiles # {}
    /\ \E d \in AppDirs : layoutFile[d].exists


\* C25: the .env merge of init's Prisma configuration and the one of
\* setupPrisma are the same function: whichever of the two commands merges a
\* fragment into the .env it finds, the file left is the one the other
\* command's merge leaves for the same file and fragment.
C25_EnvMergesEquivalent ==
    \A i \in DOMAIN merges :
        merges[i].by \in { "init", "setup-prisma" } =>
            /\ merges[i].left = PrismaEnvMerge(merges[i].found, merges[i].fragment)
            /\ merges[i].left = InitEnvMerge(merges[i].found, merges[i].fragment)


-----------------------------------------------------------------------------
(* init and setupUI on a project that setupAuth (nextauth) has set up.       *)

InitAfterAuth ==
    /\ lockfiles = {}
    /\ dirs \in { { ".", "src", "src/app" }, { ".", "src", "app" } }
    /\ envFile = File(AuthEnvContent)
    /\ \E layout \in Layouts \ { Absent } :
          layoutFile = [ d \in AppDirs |->
                           IF d = findAppDirectory(dirs)
                           THEN File(UpdateLayout(layout.content)) ELSE Absent ]
    /\ packageJson = [ exists |-> TRUE, json |-> BaseManifest ]
    /\ written = [ f \in NextAuthFiles(findAppDirectory(dirs)) |-> "nextauth" ]
    /\ cmd \in { "init", "setup-ui" }
    /\ pc = "detect"
    /\ runs = 1
    /\ packageManager = "undetected"
    /\ response = EmptyObject
    /\ qi = 1
    /\ executed = << >>
    /\ exitCode = 0
    /\ outcome = "running"
    /\ before = Snapshot
    /\ merges = << >>

NextAfterAuth == init \/ setupUI \/ Ask \/ Cancel \/ Return

SpecAfterAuth == InitAfterAuth /\ [][NextAfterAuth]_vars

\* The layout imports Providers and renders {children} inside a Providers
\* element.
WrapsChildren(layout) ==
    /\ layout.exists
    /\ includes(layout.content, "import { Providers }")
    /\ includes(layout.content, "<Providers>{children}</Providers>")

\* The fonts/layout step of init or setupUI has run.
LayoutStepDone ==
    /\ cmd \in { "init", "setup-ui" }
    /\ pc \in { "return", "done" }
    /\ outcome = "complete"

\* C26 as claimed: on a project whose layout wraps children in Providers, the
\* fonts/layout step of init or setupUI leaves a layout that still does, for
\* every font selection and every createLayout answer.
C26_ProvidersSurvive ==
    ( WrapsChildren(LayoutMet) /\ LayoutStepDone ) => WrapsChildren(LayoutNow)

\* C26: on a project whose layout wraps children in Providers, the
\* fonts/layout step of init or setupUI leaves the layout as it is, for every
\* font selection, when the createLayout answer is no; when the answer is yes
\* the layout is the font template, which has no Providers.
C26_ProvidersSurviveUnlessOverwritten ==
    ( WrapsChildren(LayoutMet) /\ LayoutStepDone ) =>
        IF Truthy(response, "createLayout")
        THEN /\ LayoutNow = File(getLayoutTemplate(selectedFonts(response["fonts"])))
             /\ ~ WrapsChildren(LayoutNow)
        ELSE /\ LayoutNow = LayoutMet
             /\ WrapsChildren(LayoutNow)

\* setupUI has run with two fonts and the answer no on a layout that
\* setupAuth had patched.
C26_Witness ==
    /\ cmd = "setup-ui" /\ LayoutStepDone
    /\ WrapsChildren(LayoutMet)
    /\ includes(LayoutMet.content, "suppressHydrationWarning")
    /\ "createLayout" \in DOMAIN response /\ response["createLayout"] = FALSE
    /\ Len(response["fonts"]) = 2
    /\ WrapsChildren(LayoutNow)


\* setupAuth (nextauth) has come to the layout update and left the patch out
\* because the layout it read holds the marker.
PatchSkipped ==
    /\ LayoutUpdated
    /\ LayoutMet.exists
    /\ ~ NeedsProviders(LayoutMet.content)

\* C27: the marker check is sound: whenever setupAuth leaves the patch out
\* because the marker is there, the layout it read imports Providers and
\* renders {children} inside a Providers element; a layout that holds the
\* marker text in other content only is patched.
C27_MarkerProvesPatch ==
    PatchSkipped => WrapsChildren(LayoutMet)


\* The port an engine listens on by default.
EnginePort(engine) ==
    CASE engine = "postgresql" -> "5432"
      [] engine = "mysql" -> "3306"
      [] engine = "mongodb" -> "27017"
      [] engine = "sqlserver" -> "1433"
      [] OTHER -> "none"

\* The port question was asked and its default taken.
PortOffered == Rendered /\ qi = 2

Selected == { response["fonts"][i] : i \in DOMAIN response["fonts"] }

\* The text names each selected font of the catalogue once, no other font,
\* and the selected ones in the order of the catalogue; Mark(f) is how the
\* text names the font f.
NamesSelection(text, Mark(_)) ==
    /\ \A k \in DOMAIN AVAILABLE_FONTS :
          Count(text, Mark(AVAILABLE_FONTS[k]))
              = IF AVAILABLE_FONTS[k].variable \in Selected THEN 1 ELSE 0
    /\ \A k, l \in DOMAIN AVAILABLE_FONTS :
          ( k < l /\ { AVAILABLE_FONTS[k].variable,
                       AVAILABLE_FONTS[l].variable } \subseteq Selected ) =>
              indexOf(text, Mark(AVAILABLE_FONTS[k]), 1)
                  < indexOf(text, Mark(AVAILABLE_FONTS[l]), 1)

\* C29: in the answers of init and setupUI the primary font is one of the
\* selected fonts, and the layout and the stylesheet are rendered for exactly
\* the selected fonts, each once and in the order of the catalogue, in
\* whatever order the answer lists them.
C29_FontsAsSelected ==
    ( cmd \in { "init", "setup-ui" } /\ "fonts" \in DOMAIN response ) =>
        /\ "primaryFont" \in DOMAIN response => response["primaryFont"] \in Selected
        /\ ( LayoutStepDone /\ Truthy(response, "createLayout") ) =>
              LET Imported(f) == f.name
              IN  NamesSelection(Between(LayoutNow.content, "import { ", " }"),
                                 Imported)
        /\ ( LayoutStepDone /\ Truthy(response, "createGlobals") ) =>
              LET stylesheet == written[findAppDirectory(before.dirs) \o "/globals.css"]
                  Listed(f) == " " \o f.variable
              IN  /\ NamesSelection(Between(stylesheet, "globals.css for", ","),
                                    Listed)
                  /\ \E v \in Selected :
                        includes(stylesheet, ", font-sans " \o v)

\* setupUI has written layout and stylesheet for an answer that lists Roboto
\* before Poppins.
C29_Witness ==
    /\ cmd = "setup-ui" /\ LayoutStepDone
    /\ response["fonts"] = << "roboto", "poppins" >>
    /\ Field(response, "primaryFont") = "roboto"
    /\ Truthy(response, "createLayout") /\ Truthy(response, "createGlobals")
    /\ includes(LayoutNow.content, "import { Poppins, Roboto } from")


\* setupUI has printed its closing report "UI setup complete!".
UICompletionReported ==
    /\ cmd = "setup-ui"
    /\ pc \in { "return", "done" }
    /\ includes(outcome, "complete")

\* C30: setupUI reports completion only when its work succeeded: the closing
\* report is never printed after the failure branch was taken, and when it is
\* printed the layout and the stylesheet that were asked for are written.
C30_CompletionMeansSuccess ==
    UICompletionReported =>
        /\ ~ includes(outcome, "failed")
        /\ Truthy(response, "createLayout") =>
              LayoutNow = File(getLayoutTemplate(selectedFonts(response["fonts"])))
        /\ Truthy(response, "createGlobals") =>
              ( findAppDirectory(before.dirs) \o "/globals.css" ) \in DOMAIN written

=============================================================================
